---- MODULE Spec2Model ----
(***************************************************************************)
(* A model of ast-roller: the dice-expression evaluator                    *)
(* (src/src/ast_roller/evaluators.py), the tree builder                    *)
(* (src/src/ast_roller/grammar.py, CalculateTree) and the result tree with *)
(* its two renderings (src/src/ast_roller/results.py), the command line    *)
(* (main.py, __main__.py) and the request handler                          *)
(* (src/lambda_function.py).                                               *)
(*                                                                         *)
(* Python values are modelled as follows.                                  *)
(*   str          a sequence of one-character strings; a class name, the   *)
(*                escape character and the placeholder of an expression    *)
(*                not evaluated are one element each                       *)
(*   int, float   a record Num: an exact rational tagged "int" or "float"  *)
(*                (IEEE rounding of floats is not modelled)                *)
(*   list         a record with kind "list" and the items                  *)
(*   dict         an association list in insertion order, as Python keeps  *)
(*   exception    a record of type "raise" returned in place of the value  *)
(***************************************************************************)
EXTENDS Integers, Sequences, FiniteSets, TLC

VARIABLES
    pc,          \* where the caller is: "text", "start", "built", "running", "done", "failed",
                 \* "returned" (the program or the handler has returned), "raised" (an
                 \* exception has left it)
    entry,       \* which caller runs: "roll" (parse, transform, evaluate), "dice" (a DiceRoll
                 \* node alone), "sequence" (a Sequence node alone), "node" (any evaluator
                 \* node alone), "main" or "__main__" (the command line), "lambda" (the
                 \* request handler)
    roll_string, \* the text given to parser.parse, or None
    input,       \* the caller's input: a parse tree, the arguments of a node, the
                 \* arguments of the command line, or the handler's event
    eval_tree,   \* the Expression tree (transformer.transform's value)
    stack,       \* the evaluate() call stack, innermost frame last
    drawLog,     \* the calls made to random.randint so far, in order
    result_tree, \* the Result tree evaluate() returned
    error,       \* the exception that ended the run, or "none"
    text_out,    \* what pretty_print last returned; on the command line, what was printed
    json_out,    \* what to_json last returned; for the handler, its response
    snapshot     \* the first run's outputs, kept for a seeded re-run

vars == <<pc, entry, roll_string, input, eval_tree, stack, drawLog, result_tree, error,
          text_out, json_out, snapshot>>

(***************************************************************************)
(* Bounds of the model.                                                    *)
(***************************************************************************)
MaxDice == 2
MaxDirectives == 2
MaxDirectiveCount == 2
MaxItems == 3

None == [type |-> "none"]

Raise(exc, msg) == [type |-> "raise", exc |-> exc, msg |-> msg]

IsRaise(x) == "exc" \in DOMAIN x

(***************************************************************************)
(* Python built-ins.                                                       *)
(***************************************************************************)
Max(a, b) == IF a >= b THEN a ELSE b

Min(a, b) == IF a <= b THEN a ELSE b

\* s[start:stop] for a list s: a negative index counts from the end, and
\* both ends are clamped to the list.
PyIndex(i, n) == IF i < 0 THEN Max(i + n, 0) ELSE Min(i, n)

PySlice(s, start, stop) ==
    LET a == PyIndex(start, Len(s))
        b == PyIndex(stop, Len(s))
    IN  IF a < b THEN SubSeq(s, a + 1, b) ELSE << >>

RECURSIVE PySum(_)
PySum(s) == IF s = << >> THEN 0 ELSE Head(s) + PySum(Tail(s))

RECURSIVE Insert(_, _)
Insert(x, s) ==
    IF s = << >> THEN <<x>>
    ELSE IF x < Head(s) THEN <<x>> \o s
    ELSE <<Head(s)>> \o Insert(x, Tail(s))

\* sorted(rolls): ascending.
RECURSIVE PySorted(_)
PySorted(s) == IF s = << >> THEN << >> ELSE Insert(Head(s), PySorted(Tail(s)))

\* A dict: a sequence of <<key, value>> in insertion order.
DictHas(d, k) == \E i \in 1..Len(d) : d[i][1] = k

DictGet(d, k) == d[CHOOSE i \in 1..Len(d) : d[i][1] = k][2]

\* d[k] = v: a key already there keeps its place.
DictSet(d, k, v) ==
    IF DictHas(d, k)
    THEN [i \in 1..Len(d) |-> IF d[i][1] = k THEN <<k, v>> ELSE d[i]]
    ELSE Append(d, <<k, v>>)

\* A defaultdict(int) read without writing (the value a read would give).
DefaultGet(d, k) == IF DictHas(d, k) THEN DictGet(d, k) ELSE 0

\* d[k] += 1 on a defaultdict(int).
DictIncr(d, k) == DictSet(d, k, DefaultGet(d, k) + 1)

RECURSIVE DictIncrAll(_, _)
DictIncrAll(d, keys) ==
    IF keys = << >> THEN d ELSE DictIncrAll(DictIncr(d, Head(keys)), Tail(keys))

\* The number of dice a face-count record holds.
RECURSIVE DictTotal(_)
DictTotal(d) == IF d = << >> THEN 0 ELSE Head(d)[2] + DictTotal(Tail(d))

(***************************************************************************)
(* Characters and numerals.                                                *)
(***************************************************************************)
Digits == <<"0", "1", "2", "3", "4", "5", "6", "7", "8", "9">>

IsDigit(c) == \E i \in 1..10 : Digits[i] = c

DigitVal(c) == (CHOOSE i \in 1..10 : Digits[i] = c) - 1

\* The length of the longest run of digits of s that starts at position i.
RECURSIVE DigitRun(_, _)
DigitRun(s, i) ==
    IF i <= Len(s) /\ IsDigit(s[i]) THEN 1 + DigitRun(s, i + 1) ELSE 0

\* int(s) for a string of decimal digits.
RECURSIVE DigitsToInt(_)
DigitsToInt(s) ==
    IF s = << >> THEN 0
    ELSE 10 * DigitsToInt(SubSeq(s, 1, Len(s) - 1)) + DigitVal(s[Len(s)])

\* str(n) for a natural number n.
RECURSIVE NatToStr(_)
NatToStr(n) ==
    IF n < 10 THEN <<Digits[n + 1]>>
    ELSE NatToStr(n \div 10) \o <<Digits[(n % 10) + 1]>>

\* sep.join(parts)
RECURSIVE Join(_, _)
Join(sep, parts) ==
    IF parts = << >> THEN << >>
    ELSE IF Len(parts) = 1 THEN parts[1]
    ELSE parts[1] \o sep \o Join(sep, Tail(parts))

\* str.lower() on the letters a dice token or a directive can hold.
Lower(c) ==
    CASE c = "K" -> "k"
      [] c = "D" -> "d"
      [] c = "H" -> "h"
      [] c = "L" -> "l"
      [] c = "F" -> "f"
      [] OTHER -> c

(***************************************************************************)
(* Numbers and lists: the values a raw_result can hold.                    *)
(***************************************************************************)
IntV(n) == [kind |-> "int", num |-> n, den |-> 1, items |-> << >>]

ListV(items) == [kind |-> "list", num |-> 0, den |-> 1, items |-> items]

Abs(n) == IF n < 0 THEN -n ELSE n

RECURSIVE Gcd(_, _)
Gcd(a, b) == IF b = 0 THEN a ELSE Gcd(b, a % b)

\* The float num/den, in lowest terms with a positive denominator.  A float
\* zero keeps its sign: -0.0 is num 0 with den -1.
FloatV(num, den) ==
    LET g == Gcd(Abs(num), Abs(den))
        sgn == IF den < 0 THEN -1 ELSE 1
    IN  [kind |-> "float", num |-> sgn * (num \div g), den |-> sgn * (den \div g),
         items |-> << >>]

NegZero == [kind |-> "float", num |-> 0, den |-> -1, items |-> << >>]

\* The sign bit of a number.
Negative(v) == v.num < 0 \/ v = NegZero

\* The denominator of a number.
Den(v) == IF v = NegZero THEN 1 ELSE v.den

IsNumber(v) == v.kind \in {"int", "float"}

\* int(v): truncation toward zero.
PyInt(v) ==
    IF v.num >= 0 THEN IntV(v.num \div Den(v)) ELSE IntV(-((-v.num) \div v.den))

\* left OP right on numbers: a float operand makes a float, / always does,
\* and / by zero raises.  A float result that is zero is -0.0 when it is a
\* product or quotient of operands of unlike sign, or a sum of two negative
\* zeros.
Arith(operator, l, r) ==
    LET isFloat == l.kind = "float" \/ r.kind = "float"
        unlike == Negative(l) # Negative(r)
        minus_r == IF r.num = 0 /\ r.kind = "float"
                   THEN (IF r = NegZero THEN FloatV(0, 1) ELSE NegZero)
                   ELSE [r EXCEPT !.num = -r.num]
        sum(a, b) == IF a.num = 0 /\ b.num = 0
                     THEN (IF a = NegZero /\ b = NegZero THEN NegZero ELSE FloatV(0, 1))
                     ELSE FloatV(a.num * Den(b) + b.num * Den(a), Den(a) * Den(b))
        signed(n, d) == IF n = 0 THEN (IF unlike THEN NegZero ELSE FloatV(0, 1))
                        ELSE FloatV(n, d)
    IN  CASE operator = "+" -> IF isFloat THEN sum(l, r) ELSE IntV(l.num + r.num)
          [] operator = "-" -> IF isFloat THEN sum(l, minus_r) ELSE IntV(l.num - r.num)
          [] operator = "*" -> IF isFloat THEN signed(l.num * r.num, Den(l) * Den(r))
                               ELSE IntV(l.num * r.num)
          [] operator = "/" -> IF r.num = 0
                               THEN Raise("ZeroDivisionError", "division by zero")
                               ELSE signed(l.num * r.den, Den(l) * r.num)

\* The decimal digits of rem/den after the point, at most `left` of them.
RECURSIVE FracDigits(_, _, _)
FracDigits(rem, den, left) ==
    IF rem = 0 \/ left = 0 THEN << >>
    ELSE <<Digits[((10 * rem) \div den) + 1]>> \o FracDigits((10 * rem) % den, den, left - 1)

IntToStr(n) == IF n < 0 THEN <<"-">> \o NatToStr(-n) ELSE NatToStr(n)

\* str(v): an int in decimal, a float with a point and at least one digit
\* after it (the expansion cut after 16 digits), a list in brackets.
RECURSIVE PyStr(_)
PyStr(v) ==
    CASE v.kind = "int" -> IntToStr(v.num)
      [] v.kind = "float" ->
            LET whole == Abs(v.num) \div Den(v)
                frac == FracDigits(Abs(v.num) % Den(v), Den(v), 16)
            IN  (IF Negative(v) THEN <<"-">> ELSE << >>) \o NatToStr(whole) \o <<".">>
                \o (IF frac = << >> THEN <<"0">> ELSE frac)
      [] v.kind = "list" ->
            <<"[">> \o Join(<<",", " ">>, [i \in 1..Len(v.items) |-> PyStr(v.items[i])])
            \o <<"]">>

\* An optional sign and the rest of a numeral.
Signed(s) == s # << >> /\ s[1] = "-"

Unsigned(s) == IF Signed(s) THEN Tail(s) ELSE s

\* int(s) for a string: an optional "-" and one or more digits, else ValueError.
ParseInt(s) ==
    LET u == Unsigned(s)
    IN  IF u # << >> /\ DigitRun(u, 1) = Len(u)
        THEN IntV((IF Signed(s) THEN -1 ELSE 1) * DigitsToInt(u))
        ELSE Raise("ValueError", "invalid literal for int()")

RECURSIVE Pow10(_)
Pow10(n) == IF n = 0 THEN 1 ELSE 10 * Pow10(n - 1)

\* float(s) for a string: an optional "-", digits, an optional point and
\* digits, at least one digit in all; else ValueError.
ParseFloat(s) ==
    LET u == Unsigned(s)
        w == DigitRun(u, 1)
        point == w < Len(u) /\ u[w + 1] = "."
        f == IF point THEN DigitRun(u, w + 2) ELSE 0
        used == w + (IF point THEN 1 + f ELSE 0)
        mant == DigitsToInt(SubSeq(u, 1, w)) * Pow10(f)
                + (IF point THEN DigitsToInt(SubSeq(u, w + 2, w + 1 + f)) ELSE 0)
    IN  IF used = Len(u) /\ w + f >= 1
        THEN IF Signed(s) /\ mant = 0 THEN NegZero
             ELSE FloatV((IF Signed(s) THEN -1 ELSE 1) * mant, Pow10(f))
        ELSE Raise("ValueError", "could not convert string to float")

(***************************************************************************)
(* Result nodes (results.py).                                              *)
(***************************************************************************)
DiceResultNode(roll_token, raw_result, die_results, to_keep, to_drop) ==
    [node_type |-> "DiceResultNode", token |-> roll_token,
     raw_result |-> raw_result, die_results |-> die_results,
     to_keep |-> to_keep, to_drop |-> to_drop]

NumberResultNode(raw_result) ==
    [node_type |-> "NumberResultNode", token |-> PyStr(raw_result),
     raw_result |-> raw_result]

BinaryOpResultNode(operator, left_node, right_node, raw_result) ==
    [node_type |-> "BinaryOpResultNode",
     token |-> <<"(">> \o left_node.token \o <<" ", operator, " ">> \o right_node.token
               \o <<")">>,
     raw_result |-> raw_result, left |-> left_node, right |-> right_node,
     operator |-> operator]

NotEvaluated == <<"[Expression Not Evaluated]">>

expr_result_token(expr_result_nodes) ==
    IF Len(expr_result_nodes) > 0 THEN expr_result_nodes[1].token ELSE NotEvaluated

ListResultNode(count_result_node, expr_result_nodes, raw_result) ==
    [node_type |-> "ListResultNode",
     token |-> count_result_node.token \o <<" ">> \o expr_result_token(expr_result_nodes),
     raw_result |-> raw_result, count_result_node |-> count_result_node,
     expr_result_nodes |-> expr_result_nodes]

SequenceResultNode(expr_result_nodes) ==
    [node_type |-> "SequenceResultNode",
     token |-> Join(<<",", " ">>,
                    [i \in 1..Len(expr_result_nodes) |-> expr_result_nodes[i].token]),
     raw_result |-> ListV([i \in 1..Len(expr_result_nodes) |->
                              expr_result_nodes[i].raw_result]),
     expr_result_nodes |-> expr_result_nodes]

(***************************************************************************)
(* DiceRollEvaluatorNode (evaluators.py).                                  *)
(***************************************************************************)
\* directive_pattern.match(token): ^[kd][hl]\d+, case-sensitive, the rest of
\* the token ignored.
DirectiveMatch(token) ==
    /\ Len(token) >= 3
    /\ token[1] \in {"k", "d"}
    /\ token[2] \in {"h", "l"}
    /\ IsDigit(token[3])

\* directives[keep_drop][high_low] = count
StoreDirective(directives, keep_drop, high_low, count) ==
    [directives EXCEPT ![keep_drop] = DictSet(@, high_low, count)]

\* The for loop of parse_directives.
RECURSIVE ParseDirectiveTokens(_, _)
ParseDirectiveTokens(tokens, directives) ==
    IF tokens = << >> THEN directives
    ELSE LET token == Head(tokens) IN
         IF ~DirectiveMatch(token)
         THEN Raise("ValueError", "Invalid dice roll directive")
         ELSE LET keep_drop == IF Lower(token[1]) = "k" THEN "keep" ELSE "drop"
                  high_low == IF Lower(token[2]) = "h" THEN "high" ELSE "low"
                  count == DigitsToInt(SubSeq(token, 3, 2 + DigitRun(token, 3)))
              IN  ParseDirectiveTokens(Tail(tokens),
                      StoreDirective(directives, keep_drop, high_low, count))

parse_directives(directive_tokens) ==
    LET directives == ParseDirectiveTokens(directive_tokens,
                          [drop |-> << >>, keep |-> << >>])
    IN  IF IsRaise(directives) THEN directives
        ELSE IF Len(directives.keep) > 1
        THEN Raise("ValueError", "Cannot have both keep high and keep low directives")
        ELSE directives

\* A Fudge die read as a die with faces 1..3.
DieBounds_FudgeAsD3(sides_str) ==
    IF Lower(sides_str[1]) = "f"
    THEN [lower |-> 1, upper |-> 3]
    ELSE [lower |-> 1, upper |-> DigitsToInt(sides_str)]

\* random_lower and random_upper for the sides of the token.
DieBounds(sides_str) ==
    IF Lower(sides_str[1]) = "f"
    THEN [lower |-> -1, upper |-> 1]
    ELSE [lower |-> 1, upper |-> DigitsToInt(sides_str)]

\* __init__: the directives are parsed first, then the dice token is matched
\* against (\d*)d(\d+|[Ff]) from its start, case-sensitive.
DiceRollEvaluatorNode(dice_token, directive_tokens) ==
    LET directives == parse_directives(directive_tokens)
        n == DigitRun(dice_token, 1)
        matched == /\ Len(dice_token) >= n + 2
                   /\ dice_token[n + 1] = "d"
                   /\ (IsDigit(dice_token[n + 2]) \/ dice_token[n + 2] \in {"F", "f"})
        count_str == SubSeq(dice_token, 1, n)
        sides_str == IF IsDigit(dice_token[n + 2])
                     THEN SubSeq(dice_token, n + 2, n + 1 + DigitRun(dice_token, n + 2))
                     ELSE <<dice_token[n + 2]>>
        num_dice == IF count_str # << >> THEN DigitsToInt(count_str) ELSE 1
        random_lower == DieBounds(sides_str).lower
        random_upper == DieBounds(sides_str).upper
    IN  IF IsRaise(directives) THEN directives
        ELSE IF ~matched THEN Raise("ValueError", "Invalid dice token")
        ELSE IF num_dice <= 0 THEN Raise("ValueError", "Number of dice must be positive")
        ELSE IF random_lower = random_upper
        THEN Raise("ValueError", "Die must have more than one side")
        ELSE [type |-> "dice", dice_token |-> dice_token,
              directive_tokens |-> directive_tokens, directives |-> directives,
              num_dice |-> num_dice, random_lower |-> random_lower,
              random_upper |-> random_upper]

combined_token(node) == Join(<<" ">>, <<node.dice_token>> \o node.directive_tokens)

\* One turn of the drop loop of apply_directives; st holds to_drop, left_idx
\* and right_idx.
DropStep(st, sorted_rolls, high_low, count) ==
    IF high_low = "high"
    THEN [to_drop |-> DictIncrAll(st.to_drop, PySlice(sorted_rolls, -count, Len(sorted_rolls))),
          left_idx |-> st.left_idx,
          right_idx |-> st.right_idx - count]
    ELSE [to_drop |-> DictIncrAll(st.to_drop, PySlice(sorted_rolls, 0, count)),
          left_idx |-> st.left_idx + count,
          right_idx |-> st.right_idx]

RECURSIVE DropLoop(_, _, _)
DropLoop(items, sorted_rolls, st) ==
    IF items = << >> THEN st
    ELSE DropLoop(Tail(items), sorted_rolls,
                  DropStep(st, sorted_rolls, Head(items)[1], Head(items)[2]))

\* The slice one turn of the keep loop reads.
KeepSlice(high_low, count, left_idx, right_idx) ==
    IF high_low = "high"
    THEN [start |-> right_idx - count, stop |-> right_idx]
    ELSE [start |-> left_idx, stop |-> left_idx + count]

RECURSIVE KeepLoop(_, _, _, _)
KeepLoop(items, sorted_rolls, st, to_keep) ==
    IF items = << >> THEN to_keep
    ELSE LET sl == KeepSlice(Head(items)[1], Head(items)[2], st.left_idx, st.right_idx)
         IN  KeepLoop(Tail(items), sorted_rolls, st,
                      DictIncrAll(to_keep, PySlice(sorted_rolls, sl.start, sl.stop)))

\* sum([die * count for die, count in to_keep.items()])
RECURSIVE KeptSum(_)
KeptSum(to_keep) ==
    IF to_keep = << >> THEN 0
    ELSE Head(to_keep)[1] * Head(to_keep)[2] + KeptSum(Tail(to_keep))

\* The window after the drop loop.
DropWindow(directives, sorted_rolls) ==
    DropLoop(directives.drop, sorted_rolls,
             [to_drop |-> << >>, left_idx |-> 0, right_idx |-> Len(sorted_rolls)])

\* Whether the keep branch of the total is taken: "if to_keep:".
UseKept(directives, to_keep) == to_keep # << >>

apply_directives(node, rolls) ==
    LET sorted_rolls == PySorted(rolls)
        st == DropWindow(node.directives, sorted_rolls)
        to_keep == KeepLoop(node.directives.keep, sorted_rolls, st, << >>)
        window == PySum(PySlice(sorted_rolls, st.left_idx, st.right_idx))
    IN  [result |-> IF UseKept(node.directives, to_keep) THEN KeptSum(to_keep) ELSE window,
         to_keep |-> to_keep,
         to_drop |-> st.to_drop]

\* The DiceResult given the sorted rolls in place of the rolls as drawn.
DiceRoll_finish_sorted(node, rolls) ==
    LET r == apply_directives(node, rolls)
    IN  DiceResultNode(combined_token(node), IntV(r.result), PySorted(rolls),
                       r.to_keep, r.to_drop)

\* evaluate(), once the rolls are drawn.
DiceRoll_finish(node, rolls) ==
    LET r == apply_directives(node, rolls)
    IN  DiceResultNode(combined_token(node), IntV(r.result), rolls, r.to_keep, r.to_drop)

(***************************************************************************)
(* The other evaluator nodes (evaluators.py).                              *)
(***************************************************************************)
NumberEvaluatorNode(number_token, number_type) ==
    [type |-> "number", number_token |-> number_token, number_type |-> number_type]

NaturalCheck(value) ==
    IF value.num <= 0 THEN Raise("ValueError", "Natural number must be positive")
    ELSE value

Number_evaluate(node) ==
    LET value ==
            CASE node.number_type = "float" -> ParseFloat(node.number_token)
              [] node.number_type = "integer" -> ParseInt(node.number_token)
              [] node.number_type = "natural_num" ->
                    LET v == ParseInt(node.number_token)
                    IN  IF IsRaise(v) THEN v ELSE NaturalCheck(v)
              [] OTHER -> Raise("ValueError", "Unknown number type")
    IN  IF IsRaise(value) THEN value ELSE NumberResultNode(value)

\* hasattr(node, 'evaluate'): every evaluator node has it, a token has not.
HasEvaluate(x) == "type" \in DOMAIN x

\* The constructor, were a literal zero divisor refused.
BinaryOpEvaluatorNode_checksZero(left, operator, right) ==
    IF operator \notin {"+", "-", "*", "/"}
    THEN Raise("ValueError", "Unknown binary operator")
    ELSE IF ~(HasEvaluate(left) /\ HasEvaluate(right))
    THEN Raise("ValueError", "Left and right operands must expose evaluate functions")
    ELSE IF operator = "/" /\ right.type = "number" /\ right.number_token = <<"0">>
    THEN Raise("ValueError", "division by zero")
    ELSE [type |-> "binop", left |-> left, operator |-> operator, right |-> right]

BinaryOpEvaluatorNode(left, operator, right) ==
    IF operator \notin {"+", "-", "*", "/"}
    THEN Raise("ValueError", "Unknown binary operator")
    ELSE IF ~(HasEvaluate(left) /\ HasEvaluate(right))
    THEN Raise("ValueError", "Left and right operands must expose evaluate functions")
    ELSE [type |-> "binop", left |-> left, operator |-> operator, right |-> right]

\* The end of evaluate(), were a whole quotient of two ints an int.
BinaryOp_finish_wholeQuotient(node, left_result, right_result) ==
    LET l == left_result.raw_result
        r == right_result.raw_result
        value == Arith(node.operator, l, r)
    IN  IF IsRaise(value) THEN value
        ELSE IF /\ node.operator = "/"
                /\ l.kind = "int"
                /\ r.kind = "int"
                /\ value.den = 1
        THEN BinaryOpResultNode(node.operator, left_result, right_result, IntV(value.num))
        ELSE BinaryOpResultNode(node.operator, left_result, right_result, value)

BinaryOp_finish(node, left_result, right_result) ==
    LET value == Arith(node.operator, left_result.raw_result, right_result.raw_result)
    IN  IF IsRaise(value) THEN value
        ELSE BinaryOpResultNode(node.operator, left_result, right_result, value)

ListEvaluatorNode(count_expr_node, loop_expr_node) ==
    [type |-> "list", count_expr_node |-> count_expr_node,
     loop_expr_node |-> loop_expr_node]

SequenceEvaluatorNode(expr_nodes) ==
    IF Len(expr_nodes) < 2
    THEN Raise("ValueError", "SequenceEvaluatorNode requires at least two expressions")
    ELSE [type |-> "sequence", expr_nodes |-> expr_nodes]

\* The single-expression branch, were its value kept as it is.
List_single_unrounded(expr_result_node) ==
    ListResultNode(NumberResultNode(IntV(1)), <<expr_result_node>>,
                   expr_result_node.raw_result)

\* The single-expression branch, were its value rounded half up.
List_single_rounded(expr_result_node) ==
    LET v == expr_result_node.raw_result
    IN  ListResultNode(NumberResultNode(IntV(1)), <<expr_result_node>>,
                       IntV((2 * v.num + Den(v)) \div (2 * Den(v))))

\* The single-expression branch of ListEvaluatorNode.evaluate.
List_single(expr_result_node) ==
    ListResultNode(NumberResultNode(IntV(1)), <<expr_result_node>>,
                   PyInt(expr_result_node.raw_result))

\* The count, were it rounded half up.
List_count_rounded(count_result) ==
    LET v == count_result.raw_result
    IN  (2 * v.num + Den(v)) \div (2 * Den(v))

\* count = int(count_result.raw_result)
List_count(count_result) == PyInt(count_result.raw_result).num

\* The end of the loop, were the results of the iterations kept last first.
List_finish_reversed(count_result, loop_results) ==
    LET n == Len(loop_results)
    IN  ListResultNode(count_result, [i \in 1..n |-> loop_results[n + 1 - i]],
                       ListV([i \in 1..n |-> PyInt(loop_results[n + 1 - i].raw_result)]))

\* The end of the loop, were the rows of a nested list joined into one.
List_finish_flattened(count_result, loop_results) ==
    LET raw_results == [i \in 1..Len(loop_results) |-> loop_results[i].raw_result]
        RECURSIVE Flat(_)
        Flat(rows) == IF rows = << >> THEN << >> ELSE Head(rows).items \o Flat(Tail(rows))
    IN  IF IsNumber(raw_results[1])
        THEN ListResultNode(count_result, loop_results,
                            ListV([i \in 1..Len(raw_results) |-> PyInt(raw_results[i])]))
        ELSE ListResultNode(count_result, loop_results, ListV(Flat(raw_results)))

\* The end of ListEvaluatorNode.evaluate: leaf results are turned into ints.
List_finish(count_result, loop_results) ==
    LET raw_results == [i \in 1..Len(loop_results) |-> loop_results[i].raw_result]
        rounded == IF IsNumber(raw_results[1])
                   THEN [i \in 1..Len(raw_results) |-> PyInt(raw_results[i])]
                   ELSE raw_results
    IN  ListResultNode(count_result, loop_results, ListV(rounded))

(***************************************************************************)
(* evaluate() as a stack machine.  A frame holds the node being evaluated  *)
(* and acc, what it has collected so far: the rolls of a dice node, the    *)
(* results of the children of any other node, in the order evaluated, and  *)
(* role, which attribute of its caller the node is.                        *)
(* Run carries the call stack forward to the next call of random.randint,  *)
(* or to the end of the outermost evaluate().                              *)
(***************************************************************************)
Frame(node, role) == [node |-> node, role |-> role, acc |-> << >>]

Top(stk) == stk[Len(stk)]

Pop(stk) == SubSeq(stk, 1, Len(stk) - 1)

\* The callee on top returns r to its caller.
Return(c, r) ==
    IF Len(c.stack) = 1
    THEN [stack |-> << >>, ret |-> r, exc |-> None]
    ELSE [stack |-> [Pop(c.stack) EXCEPT ![Len(c.stack) - 1].acc = Append(@, r)],
          ret |-> None, exc |-> None]

\* An exception with its traceback: the frames it was raised under, each
\* with its locals.
Traced(e, stk) == [type |-> "raise", exc |-> e.exc, msg |-> e.msg, traceback |-> stk]

\* An exception, were the caller given a result of 0 in its place.
Throw_recovers(c, e) == Return(c, NumberResultNode(IntV(0)))

\* No evaluator catches: an exception unwinds the whole stack.
Throw(c, e) == [stack |-> << >>, ret |-> None, exc |-> Traced(e, c.stack)]

Call(c, node, role) == [c EXCEPT !.stack = Append(@, Frame(node, role))]

ReturnOrThrow(c, r) == IF IsRaise(r) THEN Throw(c, r) ELSE Return(c, r)

\* The operand a binary operation evaluates next: right, then left.
BinaryOp_next_rightFirst(node, acc) == IF Len(acc) = 0 THEN "right" ELSE "left"

\* The operand a binary operation evaluates next: left, then right.
BinaryOp_next(node, acc) == IF Len(acc) = 0 THEN "left" ELSE "right"

\* The item a sequence evaluates next, were it to go last to first.
Sequence_next_lastFirst(node, acc) == Len(node.expr_nodes) - Len(acc)

\* The item a sequence evaluates next: first to last.
Sequence_next(node, acc) == Len(acc) + 1

AtRandint(c) ==
    /\ c.stack # << >>
    /\ Top(c.stack).node.type = "dice"
    /\ Len(Top(c.stack).acc) < Top(c.stack).node.num_dice

RECURSIVE Run(_)
Run(c) ==
    IF c.stack = << >> \/ AtRandint(c) THEN c
    ELSE LET f == Top(c.stack)
             node == f.node
             acc == f.acc
         IN  CASE node.type = "dice" -> Run(Return(c, DiceRoll_finish(node, acc)))
               [] node.type = "number" -> Run(ReturnOrThrow(c, Number_evaluate(node)))
               [] node.type = "binop" ->
                     IF Len(acc) < 2
                     THEN LET operand == BinaryOp_next(node, acc)
                          IN  Run(Call(c, node[operand], operand))
                     ELSE Run(ReturnOrThrow(c, BinaryOp_finish(node, acc[1], acc[2])))
               [] node.type = "list" ->
                     IF node.count_expr_node = None
                     THEN IF Len(acc) = 0 THEN Run(Call(c, node.loop_expr_node, "loop_expr_node"))
                          ELSE Run(Return(c, List_single(acc[1])))
                     ELSE IF Len(acc) = 0 THEN Run(Call(c, node.count_expr_node, "count_expr_node"))
                     ELSE LET count == List_count(acc[1])
                          IN  IF count <= 0
                              THEN Run(Return(c, ListResultNode(acc[1], << >>, ListV(<< >>))))
                              ELSE IF Len(acc) < 1 + count
                              THEN Run(Call(c, node.loop_expr_node, "loop_expr_node"))
                              ELSE Run(Return(c, List_finish(acc[1], Tail(acc))))
               [] node.type = "sequence" ->
                     IF Len(acc) < Len(node.expr_nodes)
                     THEN Run(Call(c, node.expr_nodes[Sequence_next(node, acc)], "expr_nodes"))
                     ELSE Run(Return(c, SequenceResultNode(acc)))

\* The outermost evaluate() call on a tree, were a tree to keep the result
\* of its last evaluation and return it again.
Start_memoized(tree) ==
    IF result_tree # None THEN [stack |-> << >>, ret |-> result_tree, exc |-> None]
    ELSE Run([stack |-> <<Frame(tree, "root")>>, ret |-> None, exc |-> None])

\* The outermost evaluate() call on a tree.
Start(tree) == Run([stack |-> <<Frame(tree, "root")>>, ret |-> None, exc |-> None])

\* For each caller on the stack, its node type, the number of children it
\* has finished and which of its attributes it is evaluating: where in the
\* tree, and in which turn of a loop, the innermost frame is.
PathOf(stk) ==
    [i \in 1..(Len(stk) - 1) |->
        [type |-> stk[i].node.type, done |-> Len(stk[i].acc), role |-> stk[i + 1].role]]

(***************************************************************************)
(* Parse trees (what parser.parse returns) and the CalculateTree           *)
(* transformer (grammar.py).                                               *)
(***************************************************************************)
Token(tok_type, value) == [tok_type |-> tok_type, value |-> value]

Tree(data, children) == [data |-> data, children |-> children]

IsToken(x) == "tok_type" \in DOMAIN x

\* The helpers the parsing tests build their expected trees with.
number_tree(value) ==
    CASE value.kind = "float" -> Tree("float", <<Token("FLOAT", PyStr(value))>>)
      [] value.kind = "int" /\ value.num > 0 ->
            Tree("natural_num", <<Token("NATURAL_NUM", PyStr(value))>>)
      [] OTHER -> Tree("integer", <<Token("INTEGER", PyStr(value))>>)

die_tree(dice_token, directives) ==
    Tree("dice_roll",
         <<Token("DICE_ROLL", dice_token),
           Tree("dice_roll_directives",
                [i \in 1..Len(directives) |-> Token("DICE_ROLL_DIRECTIVE", directives[i])])>>)

RECURSIVE list_tree(_)
list_tree(elements) ==
    IF Len(elements) = 1 THEN Tree("list_expression", elements)
    ELSE Tree("list_expression",
              <<elements[1], Token("LIST_SEP", <<" ">>), list_tree(Tail(elements))>>)

tree_root(children) == Tree("start", <<list_tree(children)>>)

RECURSIVE seq_children(_)
seq_children(children) ==
    IF children = << >> THEN << >>
    ELSE <<Token("SEQUENCE_SEP", <<",", " ">>), Head(children)>>
         \o seq_children(Tail(children))

seq_tree(children) ==
    Tree("sequence_expression", <<children[1]>> \o seq_children(Tail(children)))

binary_op_as_tree(op_name, left, right) ==
    Tree("binary_op_as", <<left, Token("OPERATOR_AS", <<op_name>>), right>>)

binary_op_md_tree(op_name, left, right) ==
    Tree("binary_op_md", <<left, Token("OPERATOR_MD", <<op_name>>), right>>)

parens_tree(inner) == Tree("parens", <<inner>>)

\* The callbacks of CalculateTree.
start(child) ==
    IF HasEvaluate(child) /\ child.type \in {"list", "sequence"} THEN child
    ELSE ListEvaluatorNode(None, child)

\* The comprehension's filter reads the name arg, which nothing binds: the
\* first expression tested raises NameError.
sequence_expression(expressions) ==
    IF Len(expressions) > 0 THEN Raise("NameError", "name 'arg' is not defined")
    ELSE SequenceEvaluatorNode(<< >>)

list_expression(args) ==
    IF Len(args) < 3 THEN ListEvaluatorNode(None, args[1])
    ELSE ListEvaluatorNode(args[1], args[3])

parens(inner) == inner

binary_op_as(left, op_token, right) ==
    BinaryOpEvaluatorNode(left, op_token.value[1], right)

dice_roll(dice_token, directives) ==
    DiceRollEvaluatorNode(dice_token.value,
        [i \in 1..Len(directives.children) |-> directives.children[i].value])

\* A callback's exception leaves transform() wrapped in a VisitError.
VisitError(e) == Raise("VisitError", e.exc)

Callback(data, args) ==
    LET r == CASE data = "start" -> start(args[1])
               [] data = "sequence_expression" -> sequence_expression(args)
               [] data = "list_expression" -> list_expression(args)
               [] data = "parens" -> parens(args[1])
               [] data \in {"binary_op_as", "binary_op_md"} ->
                     binary_op_as(args[1], args[2], args[3])
               [] data = "dice_roll" -> dice_roll(args[1], args[2])
               [] data \in {"float", "integer", "natural_num"} ->
                     NumberEvaluatorNode(args[1].value, data)
               [] OTHER -> Tree(data, args)
    IN  IF IsRaise(r) THEN VisitError(r) ELSE r

\* Transformer.transform: bottom-up, the children left to right, a callback
\* per rule; the first exception ends it.
RECURSIVE transform(_), TransformChildren(_, _)
transform(tree) ==
    IF IsToken(tree) THEN tree
    ELSE LET sub == TransformChildren(tree.children, << >>)
         IN  IF sub.failed # None THEN sub.failed ELSE Callback(tree.data, sub.args)

TransformChildren(children, done) ==
    IF children = << >> THEN [args |-> done, failed |-> None]
    ELSE LET r == transform(Head(children))
         IN  IF IsRaise(r) THEN [args |-> done, failed |-> r]
             ELSE TransformChildren(Tail(children), Append(done, r))

(***************************************************************************)
(* GRAMMAR (grammar.py).  The Earley parser asks, at a position of the     *)
(* text, for the terminals it expects there: a terminal matches what its   *)
(* regular expression matches at that position, greedily, and inline       *)
(* whitespace may be skipped before any terminal.  A matcher gives the     *)
(* position after the match, 0 if there is none.                           *)
(***************************************************************************)
CharAt(s, i) == IF i >= 1 /\ i <= Len(s) THEN s[i] ELSE ""

IsNonZeroDigit(c) == IsDigit(c) /\ c # "0"

IsSpace(c) == c \in {" ", "\t"}

RECURSIVE SpaceRun(_, _)
SpaceRun(s, i) == IF IsSpace(CharAt(s, i)) THEN 1 + SpaceRun(s, i + 1) ELSE 0

\* /([1-9]\d*)?d([1-9]\d*|[Ff])/i
DICE_ROLL(s, i) ==
    LET n == IF IsNonZeroDigit(CharAt(s, i)) THEN DigitRun(s, i) ELSE 0
        f == i + n + 1
    IN  IF Lower(CharAt(s, i + n)) # "d" THEN 0
        ELSE IF IsNonZeroDigit(CharAt(s, f)) THEN f + DigitRun(s, f)
        ELSE IF Lower(CharAt(s, f)) = "f" THEN f + 1
        ELSE 0

\* /[kd][hl]\d+/i
DICE_ROLL_DIRECTIVE(s, i) ==
    IF /\ Lower(CharAt(s, i)) \in {"k", "d"}
       /\ Lower(CharAt(s, i + 1)) \in {"h", "l"}
       /\ DigitRun(s, i + 2) > 0
    THEN i + 2 + DigitRun(s, i + 2)
    ELSE 0

\* "+" | "-"
OPERATOR_AS(s, i) == IF CharAt(s, i) \in {"+", "-"} THEN i + 1 ELSE 0

\* "*" | "/"
OPERATOR_MD(s, i) == IF CharAt(s, i) \in {"*", "/"} THEN i + 1 ELSE 0

\* /-?\d*\.\d+/
FLOAT(s, i) ==
    LET a == IF CharAt(s, i) = "-" THEN i + 1 ELSE i
        b == a + DigitRun(s, a)
    IN  IF CharAt(s, b) = "." /\ DigitRun(s, b + 1) > 0
        THEN b + 1 + DigitRun(s, b + 1)
        ELSE 0

\* The number terminal, were a plus sign allowed as well: /[+-]?\d+/
INTEGER_plusSign(s, i) ==
    LET a == IF CharAt(s, i) \in {"-", "+"} THEN i + 1 ELSE i
    IN  IF DigitRun(s, a) > 0 THEN a + DigitRun(s, a) ELSE 0

\* /-?\d+/
INTEGER(s, i) ==
    LET a == IF CharAt(s, i) = "-" THEN i + 1 ELSE i
    IN  IF DigitRun(s, a) > 0 THEN a + DigitRun(s, a) ELSE 0

\* /[1-9]\d*/
NATURAL_NUM(s, i) == IF IsNonZeroDigit(CharAt(s, i)) THEN i + DigitRun(s, i) ELSE 0

\* /\s+/
LIST_SEP(s, i) == IF SpaceRun(s, i) > 0 THEN i + SpaceRun(s, i) ELSE 0

\* /,\s*/
SEQUENCE_SEP(s, i) == IF CharAt(s, i) = "," THEN i + 1 + SpaceRun(s, i + 1) ELSE 0

\* common.WS_INLINE: (" "|/\t/)+
WS_INLINE(s, i) == IF SpaceRun(s, i) > 0 THEN i + SpaceRun(s, i) ELSE 0

Terminal(name, s, i) ==
    CASE name = "DICE_ROLL" -> DICE_ROLL(s, i)
      [] name = "DICE_ROLL_DIRECTIVE" -> DICE_ROLL_DIRECTIVE(s, i)
      [] name = "OPERATOR_AS" -> OPERATOR_AS(s, i)
      [] name = "OPERATOR_MD" -> OPERATOR_MD(s, i)
      [] name = "FLOAT" -> FLOAT(s, i)
      [] name = "INTEGER" -> INTEGER(s, i)
      [] name = "NATURAL_NUM" -> NATURAL_NUM(s, i)
      [] name = "LIST_SEP" -> LIST_SEP(s, i)
      [] name = "SEQUENCE_SEP" -> SEQUENCE_SEP(s, i)
      [] name = "LPAR" -> IF CharAt(s, i) = "(" THEN i + 1 ELSE 0
      [] name = "RPAR" -> IF CharAt(s, i) = ")" THEN i + 1 ELSE 0

\* %ignore WS_INLINE: the positions the next terminal may start at.
Ignoring(s, i) == {i} \cup (IF WS_INLINE(s, i) > 0 THEN {WS_INLINE(s, i)} ELSE {})

\* The tokens of a terminal the parser can read at position i, each with
\* the position after it.
Scan(name, s, i) ==
    {[end |-> Terminal(name, s, k),
      tree |-> Token(name, SubSeq(s, k, Terminal(name, s, k) - 1))] :
        k \in {k \in Ignoring(s, i) : Terminal(name, s, k) > 0}}

\* The text ends at position i, but for inline whitespace.
AtEnd(s, i) == Len(s) + 1 \in Ignoring(s, i)

(***************************************************************************)
(* The rules.  A rule gives, for a position of the text, every derivation  *)
(* that starts there: the tree and the position after it.  The expression  *)
(* rule has no precedence and no associativity: a chain of operands and    *)
(* operators derives every way of bracketing it.                           *)
(***************************************************************************)
BinaryOpTree(left, op_token, right) ==
    Tree(IF op_token.tok_type = "OPERATOR_AS" THEN "binary_op_as" ELSE "binary_op_md",
         <<left, op_token, right>>)

\* expression OPERATOR expression, over the operands and operators of a
\* chain: every split at an operator, every bracketing of the two sides.
RECURSIVE Bracketings(_)
Bracketings(items) ==
    IF Len(items) = 1 THEN {items[1]}
    ELSE UNION {{BinaryOpTree(l, items[2 * k], r) :
                    l \in Bracketings(SubSeq(items, 1, 2 * k - 1)),
                    r \in Bracketings(SubSeq(items, 2 * k + 1, Len(items)))} :
                k \in 1..((Len(items) - 1) \div 2)}

RECURSIVE Rule_dice_roll_directives(_, _), Operand(_, _), Chain(_, _),
          Rule_expression(_, _), Rule_list_expression(_, _), SequenceRest(_, _)
\* dice_roll_directives: DICE_ROLL_DIRECTIVE*
Rule_dice_roll_directives(s, i) ==
    {[end |-> i, tokens |-> << >>]}
    \cup UNION {{[end |-> r.end, tokens |-> <<d.tree>> \o r.tokens] :
                    r \in Rule_dice_roll_directives(s, d.end)} :
                d \in Scan("DICE_ROLL_DIRECTIVE", s, i)}

\* The alternatives of expression that are not binary operations.
Operand(s, i) ==
    UNION {UNION {{[end |-> r.end, tree |-> Tree("parens", <<e.tree>>)] :
                      r \in Scan("RPAR", s, e.end)} :
                  e \in Rule_expression(s, l.end)} :
           l \in Scan("LPAR", s, i)}
    \cup UNION {{[end |-> ds.end,
                  tree |-> Tree("dice_roll",
                               <<t.tree, Tree("dice_roll_directives", ds.tokens)>>)] :
                    ds \in Rule_dice_roll_directives(s, t.end)} :
                t \in Scan("DICE_ROLL", s, i)}
    \cup {[end |-> t.end, tree |-> Tree("float", <<t.tree>>)] : t \in Scan("FLOAT", s, i)}
    \cup {[end |-> t.end, tree |-> Tree("natural_num", <<t.tree>>)] :
             t \in Scan("NATURAL_NUM", s, i)}
    \cup {[end |-> t.end, tree |-> Tree("integer", <<t.tree>>)] : t \in Scan("INTEGER", s, i)}

\* An operand, then any number of times an operator and an operand.
Chain(s, i) ==
    UNION {{[end |-> a.end, items |-> <<a.tree>>]}
           \cup UNION {{[end |-> c.end, items |-> <<a.tree, o.tree>> \o c.items] :
                           c \in Chain(s, o.end)} :
                       o \in Scan("OPERATOR_AS", s, a.end) \cup Scan("OPERATOR_MD", s, a.end)} :
           a \in Operand(s, i)}

Rule_expression(s, i) ==
    UNION {{[end |-> c.end, tree |-> t] : t \in Bracketings(c.items)} : c \in Chain(s, i)}

\* list_expression: (expression | expression LIST_SEP list_expression)
Rule_list_expression(s, i) ==
    UNION {{[end |-> e.end, tree |-> Tree("list_expression", <<e.tree>>)]}
           \cup UNION {{[end |-> l.end,
                         tree |-> Tree("list_expression", <<e.tree, sep.tree, l.tree>>)] :
                           l \in Rule_list_expression(s, sep.end)} :
                       sep \in Scan("LIST_SEP", s, e.end)} :
           e \in Rule_expression(s, i)}

\* (SEQUENCE_SEP list_expression)+
SequenceRest(s, i) ==
    UNION {UNION {{[end |-> l.end, children |-> <<sep.tree, l.tree>>]}
                  \cup {[end |-> r.end, children |-> <<sep.tree, l.tree>> \o r.children] :
                           r \in SequenceRest(s, l.end)} :
                  l \in Rule_list_expression(s, sep.end)} :
           sep \in Scan("SEQUENCE_SEP", s, i)}

\* sequence_expression: list_expression (SEQUENCE_SEP list_expression)+
Rule_sequence_expression(s, i) ==
    UNION {{[end |-> r.end, tree |-> Tree("sequence_expression", <<l.tree>> \o r.children)] :
               r \in SequenceRest(s, l.end)} :
           l \in Rule_list_expression(s, i)}

\* start: (list_expression | sequence_expression), over the whole text.
Rule_start(s) ==
    {Tree("start", <<p.tree>>) :
        p \in {p \in Rule_list_expression(s, 1) \cup Rule_sequence_expression(s, 1) :
                  AtEnd(s, p.end)}}

(***************************************************************************)
(* Rendering (results.py): pretty_print and to_json.  A rendering is a     *)
(* pair of the text returned and the result node as the call leaves it,    *)
(* since format_die_results reads to_drop and to_keep, which are           *)
(* defaultdicts: reading a key they lack inserts it with the value 0.      *)
(***************************************************************************)
Out(text, node) == [text |-> text, node |-> node]

\* indent * '  '
RECURSIVE Spaces(_)
Spaces(indent) == IF indent <= 0 THEN << >> ELSE <<" ", " ">> \o Spaces(indent - 1)

green_start == <<"ESC", "[", "9", "2", "m">>

red_start == <<"ESC", "[", "9", "1", "m">>

color_end == <<"ESC", "[", "0", "m">>

\* d[k] on a defaultdict(int): the dict after the read.
Touch(d, k) == IF DictHas(d, k) THEN d ELSE Append(d, <<k, 0>>)

\* One turn of the loop of format_die_results; st holds the two dicts of the
\* node, the two local tallies and the pieces formatted so far.
FormatStep(st, die) ==
    LET to_drop == Touch(st.to_drop, die)
        to_keep == Touch(st.to_keep, die)
    IN  IF DictGet(to_drop, die) > DefaultGet(st.dropped, die)
        THEN [st EXCEPT !.to_drop = to_drop,
                        !.dropped = DictIncr(@, die),
                        !.formatted = Append(@, red_start \o IntToStr(die) \o color_end)]
        ELSE IF DictGet(to_keep, die) > DefaultGet(st.kept, die)
        THEN [st EXCEPT !.to_drop = to_drop, !.to_keep = to_keep,
                        !.kept = DictIncr(@, die),
                        !.formatted = Append(@, green_start \o IntToStr(die) \o color_end)]
        ELSE [st EXCEPT !.to_drop = to_drop, !.to_keep = to_keep,
                        !.formatted = Append(@, IntToStr(die))]

RECURSIVE FormatLoop(_, _)
FormatLoop(die_results, st) ==
    IF die_results = << >> THEN st
    ELSE FormatLoop(Tail(die_results), FormatStep(st, Head(die_results)))

format_die_results(node) ==
    LET st == FormatLoop(node.die_results,
                  [to_drop |-> node.to_drop, to_keep |-> node.to_keep,
                   dropped |-> << >>, kept |-> << >>, formatted |-> << >>])
    IN  Out(<<"[">> \o Join(<<",", " ">>, st.formatted) \o <<"]">>,
            [node EXCEPT !.to_drop = st.to_drop, !.to_keep = st.to_keep])

\* str(die_results)
DieListStr(die_results) ==
    <<"[">> \o Join(<<",", " ">>, [i \in 1..Len(die_results) |-> IntToStr(die_results[i])])
    \o <<"]">>

\* bool(raw_result)
Truthy(v) == IF v.kind = "list" THEN v.items # << >> ELSE v.num # 0

RECURSIVE dice_expansion(_)
dice_expansion(node) ==
    LET l == CASE node.left.node_type = "BinaryOpResultNode" -> dice_expansion(node.left)
               [] node.left.node_type = "DiceResultNode" -> format_die_results(node.left)
               [] OTHER -> Out(node.left.token, node.left)
        r == CASE node.right.node_type = "BinaryOpResultNode" -> dice_expansion(node.right)
               [] node.right.node_type = "DiceResultNode" ->
                     Out(DieListStr(node.right.die_results), node.right)
               [] OTHER -> Out(node.right.token, node.right)
    IN  Out(<<"(">> \o l.text \o <<" ", node.operator, " ">> \o r.text \o <<")">>,
            [node EXCEPT !.left = l.node, !.right = r.node])

BinaryOp_pretty_print(node, indent) ==
    LET raw_eq == <<"(">> \o node.left.token \o <<" ", node.operator, " ">>
                  \o node.right.token \o <<")">>
        expanded_dice_eq == dice_expansion(node)
        result_eq == PyStr(node.left.raw_result) \o <<" ", node.operator, " ">>
                     \o PyStr(node.right.raw_result)
    IN  Out(Spaces(indent) \o raw_eq \o <<" ", "=", ">", " ">>
            \o (IF expanded_dice_eq.text # raw_eq
                THEN expanded_dice_eq.text \o <<" ", "=", ">", " ">> ELSE << >>)
            \o result_eq \o <<" ", "=", " ">> \o PyStr(node.raw_result),
            expanded_dice_eq.node)

Dice_pretty_print(node, indent) ==
    LET formatted_results == format_die_results(node)
    IN  Out(Spaces(indent) \o node.token \o <<" ", "=", ">", " ">> \o formatted_results.text
            \o <<" ", "=", " ">> \o PyStr(node.raw_result),
            formatted_results.node)

\* indent * '' is the empty string.
Number_pretty_print(node, indent) ==
    Out(node.token \o <<" ", "=", ">", " ">> \o PyStr(node.raw_result), node)

\* prefix = f"{(indent + 1) * '  '}{idx}: "
Prefix(indent, idx) == Spaces(indent + 1) \o NatToStr(idx) \o <<":", " ">>

RECURSIVE pretty_print(_, _, _), ListItems(_, _, _, _, _), SequenceItems(_, _, _, _, _)
\* The loop of ListResultNode.pretty_print from item idx on; acc holds the
\* lines and the items already printed.
ListItems(nodes, idx, depth, indent, acc) ==
    IF idx >= Len(nodes) THEN acc
    ELSE LET expr_node == nodes[idx + 1]
             prefix == Prefix(indent, idx)
         IN  IF depth > 1
             THEN ListItems(nodes, idx + 1, depth, indent,
                      [lines |-> Append(acc.lines, prefix \o PyStr(expr_node.raw_result)),
                       nodes |-> Append(acc.nodes, expr_node)])
             ELSE LET sub == pretty_print(expr_node, depth + 1, Len(prefix) \div 2)
                  IN  ListItems(nodes, idx + 1, depth, indent,
                          [lines |-> acc.lines \o <<prefix, sub.text>>,
                           nodes |-> Append(acc.nodes, sub.node)])

SequenceItems(nodes, idx, depth, indent, acc) ==
    IF idx >= Len(nodes) THEN acc
    ELSE LET expr_node == nodes[idx + 1]
             prefix == Prefix(indent, idx)
             sub == pretty_print(expr_node, depth + 1, Len(prefix) \div 2)
         IN  SequenceItems(nodes, idx + 1, depth, indent,
                 [lines |-> acc.lines
                            \o <<Spaces(indent + 1) \o <<"E", "x", "p", "r", "e", "s", "s", "i", "o", "n", " ">> \o NatToStr(idx)
                                 \o <<":", " ">> \o expr_node.token \o <<" ", "=", ">", " ">>
                                 \o PyStr(expr_node.raw_result),
                                 sub.text>>,
                  nodes |-> Append(acc.nodes, sub.node)])

pretty_print(node, depth, indent) ==
    CASE node.node_type = "SequenceResultNode" ->
            LET r == SequenceItems(node.expr_result_nodes, 0, depth, indent,
                         [lines |-> <<Spaces(indent) \o <<"S", "e", "q", "u", "e", "n", "c", "e", ":", " ">> \o node.token>>,
                          nodes |-> << >>])
            IN  Out(Join(<<"\n">>, r.lines), [node EXCEPT !.expr_result_nodes = r.nodes])
      [] node.node_type = "ListResultNode" ->
            LET lines == <<Spaces(indent) \o <<"L", "i", "s", "t", " ", "E", "x", "p", "a", "n", "s", "i", "o", "n", ":", " ">> \o node.token,
                           Spaces(indent + 1) \o <<"C", "o", "u", "n", "t", ":", " ">> \o node.count_result_node.token
                               \o <<" ", "=", ">", " ">> \o PyStr(node.count_result_node.raw_result),
                           Spaces(indent + 1) \o <<"E", "x", "p", "r", "e", "s", "s", "i", "o", "n", ":", " ">>
                               \o expr_result_token(node.expr_result_nodes),
                           Spaces(indent + 1) \o <<"R", "e", "s", "u", "l", "t", "s", ":", " ">> \o PyStr(node.raw_result)>>
                r == ListItems(node.expr_result_nodes, 0, depth, indent,
                               [lines |-> lines, nodes |-> << >>])
            IN  IF ~\E i \in 1..Len(node.expr_result_nodes) :
                       Truthy(node.expr_result_nodes[i].raw_result)
                THEN Out(Join(<<"\n">>, lines), node)
                ELSE Out(Join(<<"\n">>, r.lines), [node EXCEPT !.expr_result_nodes = r.nodes])
      [] node.node_type = "BinaryOpResultNode" -> BinaryOp_pretty_print(node, indent)
      [] node.node_type = "DiceResultNode" -> Dice_pretty_print(node, indent)
      [] node.node_type = "NumberResultNode" -> Number_pretty_print(node, indent)

\* JSON values: what to_dict builds and json.dumps writes.
JStr(s) == [j |-> "str", s |-> s]

JVal(v) == [j |-> "val", v |-> v]

JInts(ints) == [j |-> "ints", ints |-> ints]

JList(items) == [j |-> "list", items |-> items]

JDict(pairs) == [j |-> "dict", pairs |-> pairs]

\* A dict with int keys and int values, as to_keep and to_drop are.
JIntDict(pairs) == [j |-> "intdict", pairs |-> pairs]

\* ResultNode.to_dict, were a number written as a whole number.
base_to_dict_whole(node, children, meta) ==
    JDict(<< <<<<"t", "o", "k", "e", "n">>, JStr(node.token)>>,
             <<<<"n", "o", "d", "e", "_", "t", "y", "p", "e">>, JStr(<<node.node_type>>)>>,
             <<<<"r", "e", "s", "u", "l", "t">>,
               JVal(IF IsNumber(node.raw_result) THEN PyInt(node.raw_result)
                    ELSE node.raw_result)>>,
             <<<<"c", "h", "i", "l", "d", "r", "e", "n">>, JDict(children)>>,
             <<<<"m", "e", "t", "a">>, JDict(meta)>> >>)

\* ResultNode.to_dict
base_to_dict(node, children, meta) ==
    JDict(<< <<<<"t", "o", "k", "e", "n">>, JStr(node.token)>>,
             <<<<"n", "o", "d", "e", "_", "t", "y", "p", "e">>, JStr(<<node.node_type>>)>>,
             <<<<"r", "e", "s", "u", "l", "t">>, JVal(node.raw_result)>>,
             <<<<"c", "h", "i", "l", "d", "r", "e", "n">>, JDict(children)>>,
             <<<<"m", "e", "t", "a">>, JDict(meta)>> >>)

RECURSIVE to_dict(_)
to_dict(node) ==
    CASE node.node_type = "SequenceResultNode" ->
            base_to_dict(node,
                << <<<<"s", "e", "q", "u", "e", "n", "c", "e">>,
                     JList([i \in 1..Len(node.expr_result_nodes) |->
                               to_dict(node.expr_result_nodes[i])])>> >>,
                << >>)
      [] node.node_type = "ListResultNode" ->
            base_to_dict(node,
                << <<<<"c", "o", "u", "n", "t", "_", "e", "x", "p", "r", "e", "s", "s", "i", "o", "n">>, to_dict(node.count_result_node)>>,
                   <<<<"l", "o", "o", "p", "_", "e", "x", "p", "r", "e", "s", "s", "i", "o", "n">>,
                     JList([i \in 1..Len(node.expr_result_nodes) |->
                               to_dict(node.expr_result_nodes[i])])>> >>,
                << >>)
      [] node.node_type = "BinaryOpResultNode" ->
            base_to_dict(node,
                << <<<<"l", "e", "f", "t">>, to_dict(node.left)>>, <<<<"r", "i", "g", "h", "t">>, to_dict(node.right)>> >>,
                << <<<<"o", "p", "e", "r", "a", "t", "o", "r">>, JStr(<<node.operator>>)>> >>)
      [] node.node_type = "DiceResultNode" ->
            base_to_dict(node, << >>,
                << <<<<"d", "i", "e", "_", "r", "e", "s", "u", "l", "t", "s">>, JInts(node.die_results)>>,
                   <<<<"t", "o", "_", "k", "e", "e", "p">>, JIntDict(node.to_keep)>>,
                   <<<<"t", "o", "_", "d", "r", "o", "p">>, JIntDict(node.to_drop)>> >>)
      [] OTHER -> base_to_dict(node, << >>, << >>)

Quoted(s) == <<"\"">> \o s \o <<"\"">>

\* json.dumps with its default separators; an int key is written as a string.
RECURSIVE json_dumps(_)
json_dumps(x) ==
    CASE x.j = "str" -> Quoted(x.s)
      [] x.j = "val" -> PyStr(x.v)
      [] x.j = "ints" -> DieListStr(x.ints)
      [] x.j = "list" ->
            <<"[">> \o Join(<<",", " ">>, [i \in 1..Len(x.items) |-> json_dumps(x.items[i])])
            \o <<"]">>
      [] x.j = "dict" ->
            <<"{">> \o Join(<<",", " ">>,
                           [i \in 1..Len(x.pairs) |->
                               Quoted(x.pairs[i][1]) \o <<":", " ">>
                               \o json_dumps(x.pairs[i][2])])
            \o <<"}">>
      [] x.j = "intdict" ->
            <<"{">> \o Join(<<",", " ">>,
                           [i \in 1..Len(x.pairs) |->
                               Quoted(IntToStr(x.pairs[i][1])) \o <<":", " ">>
                               \o IntToStr(x.pairs[i][2])])
            \o <<"}">>

to_json(node) == json_dumps(to_dict(node))

(***************************************************************************)
(* The inputs of a DiceRoll node alone: a dice token [count]d(sides|F) and  *)
(* a list of directive tokens, as the unit tests construct it.             *)
(***************************************************************************)
DieFaces == {<<"2">>, <<"F">>}

DiceTokens ==
    {NatToStr(n) \o <<"d">> \o f : n \in 1..MaxDice, f \in DieFaces}

DirectiveTokens ==
    {<<kd, hl>> \o NatToStr(n) :
        kd \in {"k", "d"}, hl \in {"h", "l"}, n \in 0..MaxDirectiveCount}

DirectiveLists ==
    UNION {[1..n -> DirectiveTokens] : n \in 0..MaxDirectives}

\* "3d1", "0d6", "3dx", "ad6", "2d", "d" with the faces of DieFaces, and the
\* tokens next to them: no faces, an upper-case D, a trailing character.
OddDiceTokens ==
    {<<"2", "d", "1">>, <<"0", "d", "2">>, <<"2", "d", "x">>, <<"a", "d", "2">>,
     <<"2", "d">>, <<"d">>, <<"1", "d", "0">>, <<"2", "d", "0">>, <<"2", "D", "2">>,
     <<"2", "d", "2", "x">>, <<"d", "2">>, <<"d", "f">>}

DiceInputs ==
    {[dice_token |-> t, directives |-> ds] : t \in DiceTokens, ds \in DirectiveLists}
    \cup {[dice_token |-> t, directives |-> << >>] : t \in OddDiceTokens}

(***************************************************************************)
(* The inputs of a Sequence node alone: a list of evaluator nodes, as the   *)
(* unit tests construct it.                                                *)
(***************************************************************************)
ItemNodes ==
    {NumberEvaluatorNode(<<"2">>, "natural_num"),
     NumberEvaluatorNode(<<"2", ".", "5">>, "float"),
     DiceRollEvaluatorNode(<<"1", "d", "2">>, << >>),
     DiceRollEvaluatorNode(<<"2", "d", "F">>, <<<<"k", "h", "1">>>>)}

SequenceArgs == UNION {[1..n -> ItemNodes] : n \in 0..MaxItems}

(***************************************************************************)
(* The inputs of an evaluator node alone: the constructor and its          *)
(* arguments, evaluator nodes themselves, as the unit tests construct      *)
(* them.  Among the arguments are expressions whose evaluation fails.      *)
(***************************************************************************)
OneD2 == DiceRollEvaluatorNode(<<"1", "d", "2">>, << >>)

Natural(token) == NumberEvaluatorNode(token, "natural_num")

\* 1/(1d2-1): a ZeroDivisionError when the die shows 1.
Risky ==
    BinaryOpEvaluatorNode(Natural(<<"1">>), "/",
                          BinaryOpEvaluatorNode(OneD2, "-", Natural(<<"1">>)))

\* NUMBER_EVALUATOR_CASES: natural numbers "0", "-1", "-3.14", "7", the
\* float "3.14", the integers "0", "abc".
NumberArgs ==
    {<<<<"0">>, "natural_num">>, <<<<"-", "1">>, "natural_num">>, <<<<"-", "3", ".", "1", "4">>, "natural_num">>,
     <<<<"7">>, "natural_num">>, <<<<"3", ".", "1", "4">>, "float">>, <<<<"4", ".", "5", ".", "6">>, "float">>,
     <<<<"0">>, "integer">>, <<<<"a", "b", "c">>, "integer">>, <<<<"7">>, "complex">>}

NodeOperands ==
    {OneD2, Natural(<<"1">>), Natural(<<"0">>), NumberEvaluatorNode(<<"0">>, "integer"), Risky}

NodeCounts == {Natural(<<"2">>), OneD2, Risky, Natural(<<"0">>)}

\* Bodies worth a number, and bodies that are lists themselves.
NumberBodies == {OneD2, Risky, Natural(<<"-", "1">>)}

\* Lists as bodies: "1d2 1d2", "2 1/(1d2-1)", "1d2-1 1d2", "1d2 1d2/2".
NodeBodies ==
    NumberBodies
    \cup {ListEvaluatorNode(OneD2, OneD2), ListEvaluatorNode(Natural(<<"2">>), Risky),
          ListEvaluatorNode(BinaryOpEvaluatorNode(OneD2, "-", Natural(<<"1">>)), OneD2),
          ListEvaluatorNode(OneD2, BinaryOpEvaluatorNode(OneD2, "/", Natural(<<"2">>)))}

NodeItems == {OneD2, Risky, Natural(<<"0">>)}

NodeInputs ==
    {[ctor |-> "NumberEvaluatorNode", number_token |-> a[1], number_type |-> a[2]] :
        a \in NumberArgs}
    \cup {[ctor |-> "DiceRollEvaluatorNode", dice_token |-> t, directives |-> ds] :
            t \in { <<"2", "d", "2">>, <<"1", "d", "F">>, <<"2", "d", "1">> },
            ds \in { << >>, << <<"k", "h", "1">> >>, << <<"d", "l", "1">> >> }}
    \cup {[ctor |-> "BinaryOpEvaluatorNode", left |-> l, operator |-> op, right |-> r] :
            l \in NodeOperands, op \in {"+", "/", "%"}, r \in NodeOperands}
    \cup {[ctor |-> "ListEvaluatorNode", count_expr_node |-> None, loop_expr_node |-> b] :
            b \in NumberBodies}
    \cup {[ctor |-> "ListEvaluatorNode", count_expr_node |-> c, loop_expr_node |-> b] :
            c \in NodeCounts, b \in NodeBodies}
    \cup {[ctor |-> "SequenceEvaluatorNode", expr_nodes |-> items] :
            items \in UNION {[1..n -> NodeItems] : n \in 1..2}
                      \cup {<<OneD2, Risky, OneD2>>}}

(***************************************************************************)
(* The inputs of the whole pipeline: the parse trees of roll strings, as   *)
(* the parsing tests spell them.                                           *)
(***************************************************************************)
RollDirectives == {<< >>, <<<<"d", "l", "1">>>>, <<<<"k", "h", "1">>>>}

RollDice == {die_tree(t, ds) : t \in DiceTokens, ds \in RollDirectives}

RollNumbers == {number_tree(IntV(2)), number_tree(IntV(0)), number_tree(FloatV(5, 2))}

Operands ==
    {die_tree(<<"1", "d", "2">>, << >>), die_tree(<<"2", "d", "F">>, <<<<"k", "h", "1">>>>)} \cup RollNumbers

BinaryTree(op, left, right) ==
    IF op \in {"+", "-"} THEN binary_op_as_tree(op, left, right)
    ELSE binary_op_md_tree(op, left, right)

\* "2d6+1d8"
TwoD6PlusD8 ==
    binary_op_as_tree("+", die_tree(<<"2", "d", "6">>, << >>), die_tree(<<"1", "d", "8">>, << >>))

Expressions ==
    RollDice \cup RollNumbers
    \cup {BinaryTree(op, l, r) : op \in {"+", "-", "*", "/"}, l \in Operands, r \in Operands}
    \cup {TwoD6PlusD8,
          \* "(1d2+2dF dl1)*2"
          binary_op_md_tree("*",
              parens_tree(binary_op_as_tree("+", die_tree(<<"1", "d", "2">>, << >>),
                                            die_tree(<<"2", "d", "F">>, <<<<"d", "l", "1">>>>))),
              number_tree(IntV(2))),
          \* "1d2-(2d2 kh1+1dF)"
          binary_op_as_tree("-", die_tree(<<"1", "d", "2">>, << >>),
              parens_tree(binary_op_as_tree("+", die_tree(<<"2", "d", "2">>, <<<<"k", "h", "1">>>>),
                                            die_tree(<<"1", "d", "F">>, << >>))))}

\* Counts worth at least 1: "2", "2.5", "1d2".
PositiveCounts ==
    {number_tree(IntV(2)), number_tree(FloatV(5, 2)), die_tree(<<"1", "d", "2">>, << >>)}

\* Counts worth less than 1: "0", "0.5", "-1", "1d2-2".
NonPositiveCounts ==
    {number_tree(IntV(0)), number_tree(FloatV(1, 2)), number_tree(IntV(-1)),
     binary_op_as_tree("-", die_tree(<<"1", "d", "2">>, << >>), number_tree(IntV(2)))}

Counts == PositiveCounts \cup NonPositiveCounts

Bodies == {die_tree(<<"1", "d", "2">>, << >>), die_tree(<<"2", "d", "F">>, <<<<"d", "l", "1">>>>),
           binary_op_as_tree("+", die_tree(<<"2", "d", "2">>, <<<<"k", "h", "1">>>>), number_tree(IntV(2)))}

ListInputs ==
    {tree_root(<<e>>) : e \in Expressions}
    \cup {tree_root(<<c, e>>) : c \in Counts, e \in Bodies}
    \cup {tree_root(<<number_tree(IntV(2)), c, die_tree(<<"1", "d", "2">>, << >>)>>) : c \in Counts}

\* "1d20+10+d6, d6+5+2d6"
SequenceExample ==
    <<list_tree(<<binary_op_as_tree("+",
                     binary_op_as_tree("+", die_tree(<<"1", "d", "2", "0">>, << >>), number_tree(IntV(10))),
                     die_tree(<<"d", "6">>, << >>))>>),
      list_tree(<<binary_op_as_tree("+",
                     binary_op_as_tree("+", die_tree(<<"d", "6">>, << >>), number_tree(IntV(5))),
                     die_tree(<<"2", "d", "6">>, << >>))>>)>>

SequenceInputs ==
    {Tree("start", <<seq_tree(items)>>) :
        items \in {SequenceExample}
                  \cup {<<list_tree(<<a>>), list_tree(<<b>>)>> : a \in Operands, b \in Operands}
                  \cup {<<list_tree(<<a>>), list_tree(<<number_tree(IntV(2)), a>>),
                          list_tree(<<a>>)>> : a \in Operands}}

RollInputs == ListInputs \cup SequenceInputs

(***************************************************************************)
(* The inputs of parser.parse: roll strings of the parsing tests and       *)
(* strings next to them.                                                   *)
(***************************************************************************)
\* SHOULD_FAIL_CASES: "", "d", "3d", "d+3", "3++4", "3d6)", "(3d6", "3 d 6",
\* "-3d6", "+4", "3,", ",4"
ShouldFailStrings ==
    {<< >>, <<"d">>, <<"3", "d">>, <<"d", "+", "3">>, <<"3", "+", "+", "4">>,
     <<"3", "d", "6", ")">>, <<"(", "3", "d", "6">>, <<"3", " ", "d", " ", "6">>,
     <<"-", "3", "d", "6">>, <<"+", "4">>, <<"3", ",">>, <<",", "4">>}

\* PRECEDENCE_CASES: "2+3*4", "1.5*4+5", "10-6/2", "8/2-1", "(2+3)*4",
\* "2*(3+4)", and "1d20+5-2" of COMPLEX_CASES
PrecedenceStrings ==
    {<<"2", "+", "3", "*", "4">>, <<"1", ".", "5", "*", "4", "+", "5">>,
     <<"1", "0", "-", "6", "/", "2">>, <<"8", "/", "2", "-", "1">>,
     <<"(", "2", "+", "3", ")", "*", "4">>, <<"2", "*", "(", "3", "+", "4", ")">>,
     <<"1", "d", "2", "0", "+", "5", "-", "2">>}

\* Other strings with operators, parentheses, signs and separators: "3--4",
\* "3+-4", "3 - -4", "3*-.5", "3-+4", "3*/4", "3+", "3 *", "-", "3+4-", "(3",
\* "3)", "((3)", "(3))", ")3(", "+d2", " +4", "-4", "3 -4", "  3d6  ",
\* "2 1d2+3", "3, 4", "2d2kh1", "d2 dl1", "2d", "2 d 2", "-1d2", "2-1-1",
\* "8/2/2"
OtherStrings ==
    {<<"3", "-", "-", "4">>, <<"3", "+", "-", "4">>, <<"3", " ", "-", " ", "-", "4">>,
     <<"3", "*", "-", ".", "5">>, <<"3", "-", "+", "4">>, <<"3", "*", "/", "4">>, <<"3", "+">>,
     <<"3", " ", "*">>, <<"-">>, <<"3", "+", "4", "-">>, <<"(", "3">>, <<"3", ")">>,
     <<"(", "(", "3", ")">>, <<"(", "3", ")", ")">>, <<")", "3", "(">>, <<"+", "d", "2">>,
     <<" ", "+", "4">>, <<"-", "4">>, <<"3", " ", "-", "4">>,
     <<" ", " ", "3", "d", "6", " ", " ">>, <<"2", " ", "1", "d", "2", "+", "3">>,
     <<"3", ",", " ", "4">>, <<"2", "d", "2", "k", "h", "1">>,
     <<"d", "2", " ", "d", "l", "1">>, <<"2", "d">>, <<"2", " ", "d", " ", "2">>,
     <<"-", "1", "d", "2">>, <<"2", "-", "1", "-", "1">>, <<"8", "/", "2", "/", "2">>}

\* Dice tokens and directives in upper, mixed and lower case: "2D2", "2d2",
\* "2d2 KH1", "2d2 kh1", "2d2 Dl1", "2d2 dl1", "2dF", "2df", "D2 dH1"
CaseStrings ==
    { <<"2", "D", "2">>, <<"2", "d", "2">>, <<"2", "d", "2", " ", "K", "H", "1">>, <<"2", "d", "2", " ", "k", "h", "1">>, <<"2", "d", "2", " ", "D", "l", "1">>, <<"2", "d", "2", " ", "d", "l", "1">>, <<"2", "d", "F">>, <<"2", "d", "f">>,
      <<"D", "2", " ", "d", "H", "1">> }

RollStrings == ShouldFailStrings \cup PrecedenceStrings \cup OtherStrings \cup CaseStrings

(***************************************************************************)
(* Actions.                                                                *)
(***************************************************************************)
\* The caller's state after the evaluate() stack reached configuration c.
Settle(c) ==
    /\ stack' = c.stack
    /\ IF c.exc # None
       THEN pc' = "failed" /\ error' = c.exc /\ result_tree' = None
       ELSE IF c.stack = << >>
       THEN pc' = "done" /\ error' = error /\ result_tree' = c.ret
       ELSE pc' = "running" /\ error' = error /\ result_tree' = None

\* DiceRollEvaluatorNode(dice_token, directives), as the unit tests call it.
Construct ==
    /\ pc = "start"
    /\ entry = "dice"
    /\ LET node == DiceRollEvaluatorNode(input.dice_token, input.directives)
       IN  IF IsRaise(node)
           THEN pc' = "failed" /\ error' = node /\ eval_tree' = None
           ELSE pc' = "built" /\ error' = error /\ eval_tree' = node
    /\ UNCHANGED <<entry, roll_string, input, stack, drawLog, result_tree, text_out, json_out, snapshot>>

\* SequenceEvaluatorNode(expr_nodes), as the unit tests call it.
ConstructSequence ==
    /\ pc = "start"
    /\ entry = "sequence"
    /\ LET node == SequenceEvaluatorNode(input)
       IN  IF IsRaise(node)
           THEN pc' = "failed" /\ error' = node /\ eval_tree' = None
           ELSE pc' = "built" /\ error' = error /\ eval_tree' = node
    /\ UNCHANGED <<entry, roll_string, input, stack, drawLog, result_tree, text_out, json_out, snapshot>>

\* A constructor of evaluators.py called on its arguments.
NewNode(call) ==
    CASE call.ctor = "NumberEvaluatorNode" ->
            NumberEvaluatorNode(call.number_token, call.number_type)
      [] call.ctor = "DiceRollEvaluatorNode" ->
            DiceRollEvaluatorNode(call.dice_token, call.directives)
      [] call.ctor = "BinaryOpEvaluatorNode" ->
            BinaryOpEvaluatorNode(call.left, call.operator, call.right)
      [] call.ctor = "ListEvaluatorNode" ->
            ListEvaluatorNode(call.count_expr_node, call.loop_expr_node)
      [] call.ctor = "SequenceEvaluatorNode" -> SequenceEvaluatorNode(call.expr_nodes)

\* An evaluator node constructed as the unit tests construct it.
ConstructNode ==
    /\ pc = "start"
    /\ entry = "node"
    /\ LET node == NewNode(input)
       IN  IF IsRaise(node)
           THEN pc' = "failed" /\ error' = node /\ eval_tree' = None
           ELSE pc' = "built" /\ error' = error /\ eval_tree' = node
    /\ UNCHANGED <<entry, roll_string, input, stack, drawLog, result_tree, text_out, json_out, snapshot>>

\* eval_tree.evaluate() called once more on the tree an evaluation has
\* ended on, by a result or by an exception; the caller keeps what the
\* evaluation before ended with.
Reevaluate ==
    /\ pc \in {"done", "failed"}
    /\ entry = "node"
    /\ eval_tree # None
    /\ snapshot' = [seeded |-> FALSE, result_tree |-> result_tree, error |-> error,
                    drawLog |-> drawLog]
    /\ drawLog' = << >>
    /\ Settle(Start(eval_tree))
    /\ UNCHANGED <<entry, roll_string, input, eval_tree, text_out, json_out>>

\* eval_tree.evaluate(), up to its first call of random.randint.
Evaluate ==
    /\ pc = "built"
    /\ Settle(Start(eval_tree))
    /\ UNCHANGED <<entry, roll_string, input, eval_tree, drawLog, text_out, json_out, snapshot>>

\* A rendering kept by the caller.
Rendered(text) == [text |-> text]

\* What the next call random.randint(lower, upper) can return: any value of
\* the range, or, once the generator is seeded as in the run before and has
\* been asked the same so far, the value it returned then.
Seeded(lower, upper) ==
    LET n == Len(drawLog) + 1
    IN  IF /\ snapshot # None
           /\ snapshot.seeded
           /\ n <= Len(snapshot.drawLog)
           /\ \A i \in 1..(n - 1) : /\ drawLog[i].lower = snapshot.drawLog[i].lower
                                    /\ drawLog[i].upper = snapshot.drawLog[i].upper
           /\ snapshot.drawLog[n].lower = lower
           /\ snapshot.drawLog[n].upper = upper
        THEN {snapshot.drawLog[n].value}
        ELSE lower..upper

\* One call random.randint(random_lower, random_upper) of the dice node on
\* top of the stack, and evaluate() up to the next one.  An empty range
\* makes randint raise ValueError and nothing is drawn.
Randint ==
    /\ pc = "running"
    /\ LET node == Top(stack).node
       IN  IF node.random_lower > node.random_upper
           THEN /\ drawLog' = drawLog
                /\ Settle(Throw([stack |-> stack, ret |-> None, exc |-> None],
                                Raise("ValueError", "empty range in randrange")))
           ELSE \E value \in Seeded(node.random_lower, node.random_upper) :
                  /\ drawLog' = Append(drawLog,
                         [lower |-> node.random_lower, upper |-> node.random_upper,
                          value |-> value, path |-> PathOf(stack)])
                  /\ Settle(Run([stack |-> [stack EXCEPT ![Len(stack)].acc = Append(@, value)],
                                 ret |-> None, exc |-> None]))
    /\ UNCHANGED <<entry, roll_string, input, eval_tree, text_out, json_out, snapshot>>

\* parser.parse(roll_string): a LarkError if the grammar derives no tree for
\* the text.  Where it derives several, the grammar does not say which one
\* the Earley parser returns: any of them.
Parse ==
    /\ pc = "text"
    /\ entry = "roll"
    /\ LET trees == Rule_start(roll_string)
       IN  IF trees = {}
           THEN pc' = "failed" /\ error' = Raise("LarkError", "unexpected input")
                /\ input' = input
           ELSE \E tree \in trees : pc' = "start" /\ error' = error /\ input' = tree
    /\ UNCHANGED <<entry, roll_string, eval_tree, stack, drawLog, result_tree, text_out,
                   json_out, snapshot>>

\* transformer.transform(parse_tree)
Transform ==
    /\ pc = "start"
    /\ entry = "roll"
    /\ LET tree == transform(input)
       IN  IF IsRaise(tree)
           THEN pc' = "failed" /\ error' = tree /\ eval_tree' = None
           ELSE pc' = "built" /\ error' = error /\ eval_tree' = tree
    /\ UNCHANGED <<entry, roll_string, input, stack, drawLog, result_tree, text_out, json_out, snapshot>>

\* result_tree.pretty_print(depth=0, indent=0)
PrettyPrint ==
    /\ pc = "done"
    /\ entry = "roll"
    /\ LET r == pretty_print(result_tree, 0, 0)
       IN  /\ text_out' = Rendered(r.text)
           /\ result_tree' = r.node
    /\ UNCHANGED <<pc, entry, roll_string, input, eval_tree, stack, drawLog, error, json_out, snapshot>>

\* result_tree.to_json()
ToJson ==
    /\ pc = "done"
    /\ entry = "roll"
    /\ json_out' = Rendered(to_json(result_tree))
    /\ UNCHANGED <<pc, entry, roll_string, input, eval_tree, stack, drawLog, result_tree, error,
                   text_out, snapshot>>

\* The snapshot tests' next run of the same roll string: random.seed(seed)
\* with the seed of the run before, which is kept in snapshot to compare.
Reseed ==
    /\ pc = "done"
    /\ entry = "roll"
    /\ snapshot = None
    /\ snapshot' = [seeded |-> TRUE, raw_result |-> result_tree.raw_result,
                    text_out |-> text_out, json_out |-> json_out, drawLog |-> drawLog]
    /\ pc' = "start"
    /\ eval_tree' = None
    /\ stack' = << >>
    /\ drawLog' = << >>
    /\ result_tree' = None
    /\ error' = None
    /\ text_out' = None
    /\ json_out' = None
    /\ UNCHANGED <<entry, roll_string, input>>

(***************************************************************************)
(* The command line.  entry is the program started: "main", the console    *)
(* entry function of main.py, or "__main__", the package run as a module.  *)
(* input is what opt_parser.parse_args() returns, text_out what has been   *)
(* printed, one entry for each call of print.                              *)
(***************************************************************************)
Programs == {"main", "__main__"}

\* The positional arguments: none, "1d2", "2" "1d2", "3*-.5", "1/0", "abc",
\* "2D2", "2d1", "1d2" "+" "1"
CommandLines ==
    {<< >>, <<<<"1", "d", "2">>>>, <<<<"2">>, <<"1", "d", "2">>>>, <<<<"3", "*", "-", ".", "5">>>>, <<<<"1", "/", "0">>>>, <<<<"a", "b", "c">>>>,
     <<<<"2", "D", "2">>>>, <<<<"2", "d", "1">>>>, <<<<"1", "d", "2">>, <<"+">>, <<"1">>>>}

MainInputs == {[args |-> args, verbose |-> v] : args \in CommandLines, v \in BOOLEAN}

\* print(f"{prefix}{value}")
Printed(prefix, value) == [prefix |-> prefix, value |-> value]

\* roll_string = " ".join(args) if args else '1d20'
main_roll_string(args) == IF args # << >> THEN Join(<<" ">>, args) ELSE <<"1", "d", "2", "0">>

\* main() down to the call of evaluate(): the roll string is taken from the
\* arguments, parsed and transformed.
MainStart ==
    /\ pc = "start"
    /\ entry \in Programs
    /\ roll_string' = main_roll_string(input.args)
    /\ LET trees == Rule_start(roll_string')
       IN  IF trees = {}
           THEN pc' = "failed" /\ error' = Raise("LarkError", "unexpected input")
                /\ eval_tree' = None
           ELSE \E parse_tree \in trees :
                  LET tree == transform(parse_tree)
                  IN  IF IsRaise(tree)
                      THEN pc' = "failed" /\ error' = tree /\ eval_tree' = None
                      ELSE pc' = "built" /\ error' = error /\ eval_tree' = tree
    /\ UNCHANGED <<entry, input, stack, drawLog, result_tree, text_out, json_out, snapshot>>

\* The end of main(): the result is printed.
MainPrint ==
    /\ pc = "done"
    /\ entry \in Programs
    /\ IF input.verbose
       THEN LET r == pretty_print(result_tree, 0, 0)
            IN  /\ text_out' = <<Printed("", r.text)>>
                /\ result_tree' = r.node
       ELSE /\ text_out' = <<Printed("", PyStr(result_tree.raw_result))>>
            /\ result_tree' = result_tree
    /\ pc' = "returned"
    /\ UNCHANGED <<entry, roll_string, input, eval_tree, stack, drawLog, error, json_out, snapshot>>

\* main.py, except Exception as e: the roll string and the error are printed.
MainExcept ==
    /\ pc = "failed"
    /\ entry = "main"
    /\ text_out' = <<Printed("Could not process roll string ", roll_string),
                     Printed("Error: ", error.msg)>>
    /\ pc' = "returned"
    /\ UNCHANGED <<entry, roll_string, input, eval_tree, stack, drawLog, result_tree, error,
                   json_out, snapshot>>

\* __main__.py has no handler: the exception leaves main().
MainRaise ==
    /\ pc = "failed"
    /\ entry = "__main__"
    /\ pc' = "raised"
    /\ UNCHANGED <<entry, roll_string, input, eval_tree, stack, drawLog, result_tree, error,
                   text_out, json_out, snapshot>>

(***************************************************************************)
(* The request handler (lambda_function.py) and what it imports: the       *)
(* grammar and the evaluators beside it (src/grammar.py,                   *)
(* src/evaluators.py), which know no sequences and no directives and       *)
(* return plain ResultNodes.  An event and a body are JSON values.         *)
(***************************************************************************)
JNull == [j |-> "null"]

HasKey(dict, key) == \E i \in 1..Len(dict.pairs) : dict.pairs[i][1] = key

GetItem(dict, key) == dict.pairs[CHOOSE i \in 1..Len(dict.pairs) : dict.pairs[i][1] = key][2]

\* bool(value) of a JSON value
JTruthy(value) ==
    CASE value.j = "str" -> value.s # << >>
      [] value.j = "val" -> value.v.num # 0
      [] value.j = "list" -> value.items # << >>
      [] value.j = "dict" -> value.pairs # << >>
      [] OTHER -> FALSE

\* results.ResultNode(raw_result, children): the node keeps both.
ResultNode(raw_result, children) ==
    [node_type |-> "ResultNode", raw_result |-> raw_result, children |-> children]

Child(key, value) == [key |-> key, value |-> value]

\* DiceRollEvaluatorNode.__init__ of src/evaluators.py: the token is matched
\* against (\d*)d(\d+|[Ff]), case-sensitive, and nothing else is checked.
flat_DiceRollEvaluatorNode(dice_token) ==
    LET n == DigitRun(dice_token, 1)
        matched == /\ Len(dice_token) >= n + 2
                   /\ dice_token[n + 1] = "d"
                   /\ (IsDigit(dice_token[n + 2]) \/ dice_token[n + 2] \in {"F", "f"})
        count_str == SubSeq(dice_token, 1, n)
        sides_str == IF IsDigit(dice_token[n + 2])
                     THEN SubSeq(dice_token, n + 2, n + 1 + DigitRun(dice_token, n + 2))
                     ELSE <<dice_token[n + 2]>>
    IN  IF ~matched THEN Raise("ValueError", "Invalid dice token")
        ELSE [type |-> "dice", dice_token |-> dice_token,
              num_dice |-> IF count_str # << >> THEN DigitsToInt(count_str) ELSE 1,
              random_lower |-> DieBounds(sides_str).lower,
              random_upper |-> DieBounds(sides_str).upper]

flat_BinaryOpEvaluatorNode(left, operator, right) ==
    IF operator \notin {"+", "-", "*", "/"}
    THEN Raise("ValueError", "Unknown binary operator")
    ELSE [type |-> "binop", left |-> left, operator |-> operator, right |-> right]

\* The callbacks of CalculateTree of src/grammar.py.
flat_Callback(data, args) ==
    LET r == CASE data = "root_result" -> args[1]
               [] data = "list_expression" ->
                     IF Len(args) = 1 THEN ListEvaluatorNode(args[1], None)
                     ELSE ListEvaluatorNode(args[1], args[3])
               [] data = "parens" -> args[1]
               [] data \in {"binary_op_as", "binary_op_md"} ->
                     flat_BinaryOpEvaluatorNode(args[1], args[2].value[1], args[3])
               [] data = "dice_roll" -> flat_DiceRollEvaluatorNode(args[1].value)
               [] data = "float_num" -> NumberEvaluatorNode(args[1].value, "float")
               [] data \in {"integer", "natural_num"} ->
                     NumberEvaluatorNode(args[1].value, data)
               [] OTHER -> Tree(data, args)
    IN  IF IsRaise(r) THEN VisitError(r) ELSE r

RECURSIVE flat_transform(_)
flat_transform(tree) ==
    IF IsToken(tree) THEN tree
    ELSE LET args == [i \in 1..Len(tree.children) |-> flat_transform(tree.children[i])]
             failed == {i \in 1..Len(args) : IsRaise(args[i])}
         IN  IF failed # {}
             THEN args[CHOOSE i \in failed : \A k \in failed : i <= k]
             ELSE flat_Callback(tree.data, args)

\* A tree of the grammar of the package as the grammar of src/grammar.py
\* derives it: a dice roll is its token alone, a float is a float_num.  A
\* tree with a directive has no such form.
RECURSIVE flat_tree(_)
flat_tree(tree) ==
    IF IsToken(tree) THEN {tree}
    ELSE IF tree.data = "dice_roll"
    THEN (IF tree.children[2].children = << >>
          THEN {Tree("dice_roll", <<tree.children[1]>>)} ELSE {})
    ELSE LET n == Len(tree.children)
         IN  {Tree(IF tree.data = "float" THEN "float_num" ELSE tree.data, children) :
                 children \in {c \in [1..n -> UNION {flat_tree(tree.children[i]) : i \in 1..n}] :
                                  \A i \in 1..n : c[i] \in flat_tree(tree.children[i])}}

\* start: list_expression -> root_result, over the whole text.
flat_Rule_start(s) ==
    UNION {{Tree("root_result", <<t>>) : t \in flat_tree(p.tree)} :
           p \in {p \in Rule_list_expression(s, 1) : AtEnd(s, p.end)}}

\* evaluate() of the nodes of src/evaluators.py: every result it can end
\* with, one for each way the dice can fall, and every exception.
RECURSIVE flat_evaluate(_)
flat_evaluate(node) ==
    CASE node.type = "number" ->
            LET r == Number_evaluate(node)
            IN  {IF IsRaise(r) THEN r ELSE ResultNode(r.raw_result, << >>)}
      [] node.type = "dice" ->
            IF node.random_lower > node.random_upper
            THEN {Raise("ValueError", "empty range in randrange")}
            ELSE {ResultNode(IntV(PySum(rolls)), << >>) :
                     rolls \in [1..node.num_dice -> node.random_lower..node.random_upper]}
      [] node.type = "binop" ->
            UNION {IF IsRaise(left_result) THEN {left_result}
                   ELSE UNION {IF IsRaise(right_result) THEN {right_result}
                               ELSE LET value == Arith(node.operator, left_result.raw_result,
                                                       right_result.raw_result)
                                    IN  {IF IsRaise(value) THEN value
                                         ELSE ResultNode(value,
                                                  <<Child("left", left_result),
                                                    Child("right", right_result)>>)} :
                               right_result \in flat_evaluate(node.right)} :
                   left_result \in flat_evaluate(node.left)}
      [] node.type = "list" /\ node.loop_expr_node = None ->
            {IF IsRaise(result) THEN result
             ELSE ResultNode(PyInt(result.raw_result), result.children) :
                result \in flat_evaluate(node.count_expr_node)}
      [] node.type = "list" /\ node.loop_expr_node # None ->
            UNION {IF IsRaise(count_result) THEN {count_result}
                   ELSE LET count == PyInt(count_result.raw_result).num
                            each == flat_evaluate(node.loop_expr_node)
                        IN  IF count <= 0
                            THEN {ResultNode(ListV(<< >>),
                                             <<Child("count_result", count_result)>>)}
                            ELSE {e \in each : IsRaise(e)}
                                 \cup {LET raw_results ==
                                               [i \in 1..count |-> loop_results[i].raw_result]
                                       IN  ResultNode(
                                               ListV(IF IsNumber(raw_results[1])
                                                     THEN [i \in 1..count |->
                                                              PyInt(raw_results[i])]
                                                     ELSE raw_results),
                                               <<Child("count_result", count_result),
                                                 Child("loop_results",
                                                       [items |-> loop_results])>>) :
                                          loop_results \in
                                              [1..count -> {e \in each : ~IsRaise(e)}]} :
                   count_result \in flat_evaluate(node.count_expr_node)}

\* json.loads(text): the value json.dumps writes as this text, a
\* JSONDecodeError if the text is none a value is written as.
JsonRolls == { <<"1", "d", "2">>, <<"2", " ", "1", "d", "2">>, <<"a", "b", "c">> }

JsonValues ==
    {JDict(<< >>), JStr(<<"a", "b", "c">>), JList(<<JVal(IntV(1))>>), JVal(IntV(5)), JStr(<< >>)}
    \cup {JDict(<< <<<<"r", "o", "l", "l", "_", "s", "t", "r", "i", "n", "g">>, JStr(s)>> >>) : s \in JsonRolls \cup {<< >>}}
    \cup {JDict(<< <<<<"o", "p", "t", "i", "o", "n", "s">>, JDict(<< >>)>> >>)}

json_loads(text) ==
    LET values == {x \in JsonValues : json_dumps(x) = text}
    IN  IF values = {} THEN Raise("JSONDecodeError", "Expecting value")
        ELSE CHOOSE x \in values : TRUE

\* The roll strings of the requests: "1d2", "2 1d2", "2 2 1d2", "0 1d2",
\* "3*-.5", "8/2/2", "1/0", "abc", "2D2", "2d1", "2dF", "1d2 kh1", "1, 2"
RequestRolls ==
    { <<"1", "d", "2">>, <<"2", " ", "1", "d", "2">>, <<"2", " ", "2", " ", "1", "d", "2">>, <<"0", " ", "1", "d", "2">>, <<"3", "*", "-", ".", "5">>, <<"8", "/", "2", "/", "2">>, <<"1", "/", "0">>, <<"a", "b", "c">>,
      <<"2", "D", "2">>, <<"2", "d", "1">>, <<"2", "d", "F">>, <<"1", "d", "2", " ", "k", "h", "1">>, <<"1", ",", " ", "2">> }

\* The bodies of the requests: objects with and without a roll_string, and
\* what is no object.
RequestBodies ==
    {JDict(<< <<<<"r", "o", "l", "l", "_", "s", "t", "r", "i", "n", "g">>, JStr(s)>> >>) : s \in RequestRolls \cup {<< >>}}
    \cup {JDict(<< <<<<"r", "o", "l", "l", "_", "s", "t", "r", "i", "n", "g">>, v>> >>) : v \in {JNull, JVal(IntV(5)), JVal(IntV(0))}}
    \cup {JDict(<< >>), JDict(<< <<<<"o", "p", "t", "i", "o", "n", "s">>, JDict(<< >>)>> >>)}
    \cup {JNull, JVal(IntV(5)), JList(<<JVal(IntV(1))>>)}
    \cup {JStr(json_dumps(x)) : x \in JsonValues}
    \cup {JStr(<<"n", "o", "t", " ", "j", "s", "o", "n">>), JStr(<< >>)}

Events ==
    {JDict(<< >>), JDict(<< <<<<"n", "a", "m", "e">>, JStr(<<"t", "e", "s", "t">>)>> >>)}
    \cup {JDict(<< <<<<"b", "o", "d", "y">>, body>> >>) : body \in RequestBodies}

\* body = json.loads(event['body']) if isinstance(event['body'], str)
\*        else event['body']
handler_body(event) ==
    IF ~HasKey(event, <<"b", "o", "d", "y">>) THEN Raise("KeyError", "'body'")
    ELSE LET body == GetItem(event, <<"b", "o", "d", "y">>)
         IN  IF body.j = "str" THEN json_loads(body.s) ELSE body

\* roll_string = body.get('roll_string', '') or '1d20'
handler_roll_string(body) ==
    IF body.j # "dict"
    THEN Raise("AttributeError", "object has no attribute 'get'")
    ELSE LET got == IF HasKey(body, <<"r", "o", "l", "l", "_", "s", "t", "r", "i", "n", "g">>) THEN GetItem(body, <<"r", "o", "l", "l", "_", "s", "t", "r", "i", "n", "g">>)
                    ELSE JStr(<< >>)
         IN  IF JTruthy(got) THEN got ELSE JStr(<<"1", "d", "2", "0">>)

\* The try block down to roll_result: what it can end with, a result or the
\* exception raised, and the roll string it got to.
handler_try(event) ==
    LET body == handler_body(event)
        roll == IF IsRaise(body) THEN body ELSE handler_roll_string(body)
        Ended(text, ends) == {[roll_string |-> text, end |-> e] : e \in ends}
    IN  IF IsRaise(roll) THEN Ended(None, {roll})
        ELSE IF roll.j # "str"
        THEN Ended(None, {Raise("TypeError", "expected string or bytes-like object")})
        ELSE LET parsed == flat_Rule_start(roll.s)
             IN  IF parsed = {}
                 THEN Ended(roll.s, {Raise("LarkError", "unexpected input")})
                 ELSE UNION {LET transformed == flat_transform(parsed_tree)
                             IN  IF IsRaise(transformed) THEN Ended(roll.s, {transformed})
                                 ELSE Ended(roll.s, flat_evaluate(transformed)) :
                             parsed_tree \in parsed}

Headers ==
    JDict(<< <<<<"C", "o", "n", "t", "e", "n", "t", "-", "T", "y", "p", "e">>, JStr(<<"a", "p", "p", "l", "i", "c", "a", "t", "i", "o", "n", "/", "j", "s", "o", "n">>)>>,
             <<<<"A", "c", "c", "e", "s", "s", "-", "C", "o", "n", "t", "r", "o", "l", "-", "A", "l", "l", "o", "w", "-", "O", "r", "i", "g", "i", "n">>, JStr(<<"*">>)>> >>)

Response(statusCode, body) ==
    [statusCode |-> statusCode, headers |-> Headers, body |-> json_dumps(body)]

\* The classes of the exceptions raised here: all derive from Exception.
ExceptionClasses ==
    {"KeyError", "AttributeError", "TypeError", "JSONDecodeError", "LarkError", "VisitError",
     "ValueError", "ZeroDivisionError", "NameError", "OverflowError"}

\* except Exception, were it except ValueError.
IsException_valueErrorOnly(e) == e.exc = "ValueError"

\* except Exception as e
IsException(e) == e.exc \in ExceptionClasses

\* lambda_handler(event, context).  The two calls of logger change nothing
\* here; every event of Events can be written by json.dumps.
lambda_handler ==
    /\ pc = "start"
    /\ entry = "lambda"
    /\ \E ended \in handler_try(input) :
          /\ roll_string' = ended.roll_string
          /\ IF ~IsRaise(ended.end)
             THEN /\ result_tree' = ended.end
                  /\ error' = None
                  /\ pc' = "returned"
                  /\ json_out' = Response(200,
                         JDict(<< <<<<"r", "o", "l", "l", "_", "r", "e", "s", "u", "l", "t">>, JVal(ended.end.raw_result)>> >>))
             ELSE /\ result_tree' = None
                  /\ error' = ended.end
                  /\ IF IsException(ended.end)
                     THEN /\ pc' = "returned"
                          /\ json_out' = Response(500,
                                 JDict(<< <<<<"e", "r", "r", "o", "r">>, JStr(<<"I", "n", "t", "e", "r", "n", "a", "l", " ", "s", "e", "r", "v", "e", "r", " ", "e", "r", "r", "o", "r">>)>>,
                                          <<<<"m", "e", "s", "s", "a", "g", "e">>, JStr(<<ended.end.msg>>)>> >>))
                     ELSE /\ pc' = "raised"
                          /\ json_out' = None
    /\ UNCHANGED <<entry, input, eval_tree, stack, drawLog, text_out, snapshot>>

InitDice ==
    /\ pc = "start"
    /\ entry = "dice"
    /\ roll_string = None
    /\ input \in DiceInputs
    /\ eval_tree = None
    /\ stack = << >>
    /\ drawLog = << >>
    /\ result_tree = None
    /\ error = None
    /\ text_out = None
    /\ json_out = None
    /\ snapshot = None

NextDice == Construct \/ Evaluate \/ Randint

SpecDice == InitDice /\ [][NextDice]_vars

InitSequence ==
    /\ pc = "start"
    /\ entry = "sequence"
    /\ roll_string = None
    /\ input \in SequenceArgs
    /\ eval_tree = None
    /\ stack = << >>
    /\ drawLog = << >>
    /\ result_tree = None
    /\ error = None
    /\ text_out = None
    /\ json_out = None
    /\ snapshot = None

NextSequence == ConstructSequence \/ Evaluate \/ Randint

SpecSequence == InitSequence /\ [][NextSequence]_vars

InitNodes ==
    /\ pc = "start"
    /\ entry = "node"
    /\ roll_string = None
    /\ input \in NodeInputs
    /\ eval_tree = None
    /\ stack = << >>
    /\ drawLog = << >>
    /\ result_tree = None
    /\ error = None
    /\ text_out = None
    /\ json_out = None
    /\ snapshot = None

NextNodes == ConstructNode \/ Evaluate \/ Randint \/ Reevaluate

SpecNodes == InitNodes /\ [][NextNodes]_vars

InitMain ==
    /\ pc = "start"
    /\ entry \in Programs
    /\ roll_string = None
    /\ input \in MainInputs
    /\ eval_tree = None
    /\ stack = << >>
    /\ drawLog = << >>
    /\ result_tree = None
    /\ error = None
    /\ text_out = << >>
    /\ json_out = None
    /\ snapshot = None

NextMain == MainStart \/ Evaluate \/ Randint \/ MainPrint \/ MainExcept \/ MainRaise

SpecMain == InitMain /\ [][NextMain]_vars

InitLambda ==
    /\ pc = "start"
    /\ entry = "lambda"
    /\ roll_string = None
    /\ input \in Events
    /\ eval_tree = None
    /\ stack = << >>
    /\ drawLog = << >>
    /\ result_tree = None
    /\ error = None
    /\ text_out = None
    /\ json_out = None
    /\ snapshot = None

NextLambda == lambda_handler

SpecLambda == InitLambda /\ [][NextLambda]_vars

InitParse ==
    /\ pc = "text"
    /\ entry = "roll"
    /\ roll_string \in RollStrings
    /\ input = None
    /\ eval_tree = None
    /\ stack = << >>
    /\ drawLog = << >>
    /\ result_tree = None
    /\ error = None
    /\ text_out = None
    /\ json_out = None
    /\ snapshot = None

NextParse == Parse \/ Transform \/ Evaluate \/ Randint

SpecParse == InitParse /\ [][NextParse]_vars

Init ==
    /\ pc = "start"
    /\ entry = "roll"
    /\ roll_string = None
    /\ input \in RollInputs
    /\ eval_tree = None
    /\ stack = << >>
    /\ drawLog = << >>
    /\ result_tree = None
    /\ error = None
    /\ text_out = None
    /\ json_out = None
    /\ snapshot = None

Next == Transform \/ Evaluate \/ Randint \/ PrettyPrint \/ ToJson \/ Reseed

Spec == Init /\ [][Next]_vars

(***************************************************************************)
(* What the claims about the whole pipeline read off the input and the     *)
(* log of draws.                                                           *)
(***************************************************************************)
IsSequenceInput == input.children[1].data = "sequence_expression"

\* The comma-separated items of a sequence input: every other child.
ItemCount == (Len(input.children[1].children) + 1) \div 2

\* The bounds of the draws requested, in order.
Requests(log) == [i \in 1..Len(log) |-> <<log[i].lower, log[i].upper>>]

IsPrefix(a, b) == Len(a) <= Len(b) /\ a = SubSeq(b, 1, Len(a))

\* The first position at which the paths of two draws part, 0 if none.
PartsAt(p, q) ==
    LET n == Min(Len(p), Len(q))
        diff == {k \in 1..n : p[k] # q[k]}
    IN  IF diff = {} THEN 0 ELSE CHOOSE k \in diff : \A m \in diff : k <= m

\* Two draws that part at a binary operation: the earlier one is requested
\* under its left operand, the later one under its right operand.
LeftDrawsFirst(log) ==
    \A i, j \in 1..Len(log) :
        LET k == PartsAt(log[i].path, log[j].path)
        IN  (i < j /\ k > 0 /\ log[i].path[k].type = "binop")
                => /\ log[i].path[k].role = "left"
                   /\ log[j].path[k].role = "right"

(***************************************************************************)
(* C1.  As claimed: an input of two or more comma-separated list           *)
(* expressions is transformed and evaluated without error, and the result  *)
(* is a SequenceResult whose raw_result holds one value per item.          *)
(***************************************************************************)
C1_SequenceEvaluates ==
    (entry = "roll" /\ IsSequenceInput)
        => /\ pc # "failed"
           /\ pc = "done"
                => /\ result_tree.node_type = "SequenceResultNode"
                   /\ Len(result_tree.raw_result.items) = ItemCount

(***************************************************************************)
(* C2.  A binary operation evaluates its left operand completely before    *)
(* its right operand: of two draws under the two operands of one binary    *)
(* operation, the one under the left operand is requested first.  For      *)
(* "2d6+1d8" the requests are (1,6), (1,6), (1,8) in this order, and a     *)
(* rendering of the result requests no draw.                               *)
(***************************************************************************)
C2_LeftBeforeRight ==
    /\ [](entry = "roll"
            => /\ LeftDrawsFirst(drawLog)
               /\ input = tree_root(<<TwoD6PlusD8>>)
                    => /\ IsPrefix(Requests(drawLog), <<<<1, 6>>, <<1, 6>>, <<1, 8>>>>)
                       /\ pc = "done" => Len(drawLog) = 3)
    /\ [][(pc = "done" /\ pc' = "done") => drawLog' = drawLog]_vars

C2_Witness ==
    /\ entry = "roll"
    /\ input = tree_root(<<TwoD6PlusD8>>)
    /\ pc = "done"
    /\ Requests(drawLog) = <<<<1, 6>>, <<1, 6>>, <<1, 8>>>>
    /\ text_out # None
    /\ json_out # None

(***************************************************************************)
(* C3.  As claimed: a second evaluation of the same input, fed the draw    *)
(* values of the first, ends with the same raw_result, the same text       *)
(* rendering and the same JSON rendering as the first, after the same      *)
(* draw requests in the same order.                                        *)
(***************************************************************************)
C3_SeededRerun ==
    (entry = "roll" /\ snapshot # None)
        => /\ pc # "failed"
           /\ pc = "done"
                => /\ result_tree.raw_result = snapshot.raw_result
                   /\ drawLog = snapshot.drawLog
                   /\ (text_out # None /\ snapshot.text_out # None)
                        => text_out = snapshot.text_out
                   /\ (json_out # None /\ snapshot.json_out # None)
                        => json_out = snapshot.json_out

(***************************************************************************)
(* What the claims about list expressions read off the trees.              *)
(***************************************************************************)
\* The input is a single expression e: the evaluator tree is
\* ListEvaluatorNode(None, e).
IsSingleInput ==
    /\ entry = "roll"
    /\ eval_tree # None
    /\ eval_tree.type = "list"
    /\ eval_tree.count_expr_node = None

\* The draws one evaluation of an expression node requests.
RECURSIVE DrawsOf(_)
DrawsOf(node) ==
    CASE node.type = "dice" -> node.num_dice
      [] node.type = "binop" -> DrawsOf(node.left) + DrawsOf(node.right)
      [] node.type = "list" /\ node.count_expr_node = None -> DrawsOf(node.loop_expr_node)
      [] OTHER -> 0

\* The whole number r is the value v cut off toward zero.
IsTruncationOf(r, v) ==
    /\ r.kind = "int"
    /\ Abs(r.num) * Den(v) <= Abs(v.num)
    /\ Abs(v.num) < (Abs(r.num) + 1) * Den(v)
    /\ r.num > 0 => v.num > 0
    /\ r.num < 0 => v.num < 0

\* The whole number r is at most one half away from the value v.
IsNearestTo(r, v) ==
    /\ r.kind = "int"
    /\ 2 * Abs(v.num - r.num * Den(v)) <= Den(v)

\* The body of a single-expression input was evaluated once: one result, and
\* the draws of one evaluation, all requested under the list's body.
BodyEvaluatedOnce ==
    /\ Len(result_tree.expr_result_nodes) = 1
    /\ Len(drawLog) = DrawsOf(eval_tree.loop_expr_node)
    /\ \A i \in 1..Len(drawLog) :
          drawLog[i].path[1] = [type |-> "list", done |-> 0, role |-> "loop_expr_node"]

(***************************************************************************)
(* C11.  As claimed: for a single expression e whose value is a float, the *)
(* list result's raw_result is that value rounded to the nearest whole     *)
(* number, and e is evaluated exactly once.                                *)
(***************************************************************************)
C11_RoundsToNearest ==
    (IsSingleInput /\ pc = "done"
        /\ result_tree.expr_result_nodes[1].raw_result.kind = "float")
        => /\ IsNearestTo(result_tree.raw_result,
                          result_tree.expr_result_nodes[1].raw_result)
           /\ BodyEvaluatedOnce

(***************************************************************************)
(* C11, amended.  For a single expression e whose value is a float, the    *)
(* list result's raw_result is that value truncated toward zero (0.8       *)
(* gives 0, -1.5 gives -1), and e is evaluated exactly once.               *)
(***************************************************************************)
C11_TruncatesTowardZero ==
    (IsSingleInput /\ pc = "done"
        /\ result_tree.expr_result_nodes[1].raw_result.kind = "float")
        => /\ IsTruncationOf(result_tree.raw_result,
                             result_tree.expr_result_nodes[1].raw_result)
           /\ BodyEvaluatedOnce

\* "1d2/2.5" rolled 2: the body is worth 0.8, the list 0.
C11_Witness ==
    /\ IsSingleInput
    /\ pc = "done"
    /\ result_tree.expr_result_nodes[1].raw_result = FloatV(4, 5)
    /\ result_tree.raw_result = IntV(0)
    /\ Len(drawLog) = 1

(***************************************************************************)
(* What the claims about counted lists read off the trees.                 *)
(***************************************************************************)
\* The input is "c e" with e an expression: the evaluator tree is
\* ListEvaluatorNode(c, ListEvaluatorNode(None, e)).
IsCountedInput ==
    /\ entry = "roll"
    /\ Len(input.children[1].children) = 3
    /\ Len(input.children[1].children[3].children) = 1

CountTree == input.children[1].children[1]

\* The result nodes of a result tree.
RECURSIVE ResultNodes(_)
ResultNodes(node) ==
    {node} \cup
    CASE node.node_type = "BinaryOpResultNode" ->
            ResultNodes(node.left) \cup ResultNodes(node.right)
      [] node.node_type = "ListResultNode" ->
            ResultNodes(node.count_result_node)
            \cup UNION {ResultNodes(node.expr_result_nodes[i]) :
                            i \in 1..Len(node.expr_result_nodes)}
      [] node.node_type = "SequenceResultNode" ->
            UNION {ResultNodes(node.expr_result_nodes[i]) :
                      i \in 1..Len(node.expr_result_nodes)}
      [] OTHER -> {}

\* The whole number n for which IsTruncationOf(n, v).
TruncationOf(v) ==
    CHOOSE n \in -(Abs(v.num))..Abs(v.num) : IsTruncationOf(IntV(n), v)

\* The draws requested under the count, under the body, of the outer list.
CountDraws == {i \in 1..Len(drawLog) : drawLog[i].path[1].role = "count_expr_node"}

BodyDraws == {i \in 1..Len(drawLog) : drawLog[i].path[1].role = "loop_expr_node"}

(***************************************************************************)
(* C12.  Empty-repeat law: a list whose count is worth a value truncating  *)
(* to n <= 0 evaluates without error to a ListResult with no item results  *)
(* and an empty value sequence; the count is evaluated exactly once and    *)
(* the body never, so that no draw is requested under the body.            *)
(***************************************************************************)
C12_EmptyRepeat ==
    /\ (entry = "roll" /\ pc = "done")
          => \A m \in ResultNodes(result_tree) :
                (/\ m.node_type = "ListResultNode"
                 /\ TruncationOf(m.count_result_node.raw_result) <= 0)
                    => /\ m.expr_result_nodes = << >>
                       /\ m.raw_result = ListV(<< >>)
    /\ (IsCountedInput /\ CountTree \in NonPositiveCounts)
          => /\ pc # "failed"
             /\ BodyDraws = {}
             /\ pc = "done"
                  => /\ TruncationOf(result_tree.count_result_node.raw_result) <= 0
                     /\ Len(drawLog) = DrawsOf(eval_tree.count_expr_node)

\* "1d2-2 1d2" rolled 1: the count is worth -1 after one draw, the list is
\* empty.
C12_Witness ==
    /\ IsCountedInput
    /\ CountTree \in NonPositiveCounts
    /\ pc = "done"
    /\ result_tree.count_result_node.raw_result = IntV(-1)
    /\ Len(drawLog) = 1
    /\ result_tree.raw_result = ListV(<< >>)

\* The outcomes of the dice of a result, left to right.
RECURSIVE DieValues(_), DieValuesOfAll(_)
DieValues(node) ==
    CASE node.node_type = "DiceResultNode" -> node.die_results
      [] node.node_type = "BinaryOpResultNode" -> DieValues(node.left) \o DieValues(node.right)
      [] node.node_type = "ListResultNode" ->
            DieValues(node.count_result_node) \o DieValuesOfAll(node.expr_result_nodes)
      [] node.node_type = "SequenceResultNode" -> DieValuesOfAll(node.expr_result_nodes)
      [] OTHER -> << >>

DieValuesOfAll(nodes) ==
    IF nodes = << >> THEN << >>
    ELSE DieValues(Head(nodes)) \o DieValuesOfAll(Tail(nodes))

\* The values drawn under the body in iteration k of the outer list, in the
\* order drawn: the list has then finished its count and k - 1 iterations.
DrawnInIteration(k) ==
    LET sel == SelectSeq(drawLog,
                   LAMBDA d : d.path[1] = [type |-> "list", done |-> k,
                                           role |-> "loop_expr_node"])
    IN  [i \in 1..Len(sel) |-> sel[i].value]

(***************************************************************************)
(* C13.  A list whose count is worth a value truncating to n > 0 evaluates *)
(* the count exactly once and before the body, then the body exactly n     *)
(* times one after another: every draw of the count precedes every draw    *)
(* of the body, the draws of iteration i precede those of iteration i+1,   *)
(* and the value sequence and the item results have n entries, entry i     *)
(* being the outcome of iteration i.                                       *)
(***************************************************************************)
C13_CountThenBodyInOrder ==
    IsCountedInput
        => /\ \A i \in CountDraws, j \in BodyDraws : i < j
           /\ \A i, j \in BodyDraws :
                  i < j => drawLog[i].path[1].done <= drawLog[j].path[1].done
           /\ (pc = "done" /\ TruncationOf(result_tree.count_result_node.raw_result) > 0)
                => LET n == TruncationOf(result_tree.count_result_node.raw_result)
                   IN  /\ Cardinality(CountDraws) = DrawsOf(eval_tree.count_expr_node)
                       /\ Cardinality(BodyDraws) = n * DrawsOf(eval_tree.loop_expr_node)
                       /\ Len(result_tree.expr_result_nodes) = n
                       /\ Len(result_tree.raw_result.items) = n
                       /\ \A k \in 1..n :
                            /\ DieValues(result_tree.expr_result_nodes[k]) = DrawnInIteration(k)
                            /\ IsTruncationOf(result_tree.raw_result.items[k],
                                              result_tree.expr_result_nodes[k].raw_result)

\* "1d2 1d2" rolled 2, then 1 and 2: two iterations, worth 1 and 2.
C13_Witness ==
    /\ IsCountedInput
    /\ pc = "done"
    /\ [i \in 1..Len(drawLog) |-> drawLog[i].value] = <<2, 1, 2>>
    /\ CountDraws = {1}
    /\ BodyDraws = {2, 3}
    /\ result_tree.raw_result = ListV(<<IntV(1), IntV(2)>>)

(***************************************************************************)
(* What the claims about binary operations read off the result tree.       *)
(***************************************************************************)
BinaryOpResults(tree) ==
    {m \in ResultNodes(tree) : m.node_type = "BinaryOpResultNode"}

\* v is l OP r, as an equation between fractions.
IsValueOf(v, operator, l, r) ==
    CASE operator = "+" ->
            v.num * Den(l) * Den(r) = (l.num * Den(r) + r.num * Den(l)) * Den(v)
      [] operator = "-" ->
            v.num * Den(l) * Den(r) = (l.num * Den(r) - r.num * Den(l)) * Den(v)
      [] operator = "*" ->
            v.num * Den(l) * Den(r) = l.num * r.num * Den(v)
      [] operator = "/" ->
            r.num # 0 /\ v.num * Den(l) * r.num = l.num * Den(r) * Den(v)

(***************************************************************************)
(* C15.  The value of a binary operation is left OP right with numeric     *)
(* promotion: it is an integer exactly when both operands are integers and *)
(* the operator is +, - or *; a division gives a float also when both      *)
(* operands are integers and the quotient is whole.                        *)
(***************************************************************************)
C15_NumericPromotion ==
    (entry = "roll" /\ pc = "done")
        => \A m \in BinaryOpResults(result_tree) :
              LET l == m.left.raw_result
                  r == m.right.raw_result
              IN  /\ IsValueOf(m.raw_result, m.operator, l, r)
                  /\ m.raw_result.kind =
                        IF m.operator # "/" /\ l.kind = "int" /\ r.kind = "int"
                        THEN "int" ELSE "float"

\* "2/2" is the float 1.0.
C15_Witness ==
    /\ IsSingleInput
    /\ pc = "done"
    /\ \E m \in BinaryOpResults(result_tree) :
          /\ m.operator = "/"
          /\ m.left.raw_result = IntV(2)
          /\ m.right.raw_result = IntV(2)
          /\ m.raw_result = FloatV(1, 1)

(***************************************************************************)
(* C16.  Division by zero is not detected at construction: an input with   *)
(* a division is always transformed, and its evaluation fails, with        *)
(* ZeroDivisionError and without a result, exactly when the value of the   *)
(* right operand of a division is zero, after both operands have been      *)
(* evaluated, the left one first.                                          *)
(***************************************************************************)
C16_DivisionByZeroAtEvaluate ==
    (entry = "roll" /\ ~IsSequenceInput)
        => /\ pc = "failed"
                => /\ eval_tree # None
                   /\ error.exc = "ZeroDivisionError"
                   /\ result_tree = None
                   /\ LET f == Top(error.traceback)
                      IN  /\ f.node.type = "binop"
                          /\ f.node.operator = "/"
                          /\ Len(f.acc) = 2
                          /\ f.acc[2].raw_result.num = 0
                          /\ Len(DieValues(f.acc[1])) = DrawsOf(f.node.left)
                          /\ Len(DieValues(f.acc[2])) = DrawsOf(f.node.right)
                          /\ DieValues(f.acc[1]) \o DieValues(f.acc[2])
                                = [i \in 1..Len(drawLog) |-> drawLog[i].value]
                   /\ LeftDrawsFirst(drawLog)
           /\ pc = "done"
                => \A m \in BinaryOpResults(result_tree) :
                      m.operator = "/" => m.right.raw_result.num # 0

\* "1d2/2dF kh1" rolled 2, then -1 and 0: the right operand is worth 0.
C16_Witness ==
    /\ IsSingleInput
    /\ pc = "failed"
    /\ error.exc = "ZeroDivisionError"
    /\ [i \in 1..Len(drawLog) |-> drawLog[i].value] = <<2, -1, 0>>
    /\ Top(error.traceback).acc[2].token = <<"2", "d", "F", " ", "k", "h", "1">>

(***************************************************************************)
(* What the claims about the JSON rendering read off a serialized node.    *)
(***************************************************************************)
\* d[key] of a serialized dict.
Field(d, key) ==
    d.pairs[CHOOSE i \in 1..Len(d.pairs) : d.pairs[i][1] = key][2]

\* Every node of the tree is serialized with its raw_result as "result".
ResultsSerialized(tree) ==
    \A m \in ResultNodes(tree) :
        Field(to_dict(m), <<"r", "e", "s", "u", "l", "t">>) = JVal(m.raw_result)

(***************************************************************************)
(* C20.  The JSON rendering is a pure structural transform: every          *)
(* serialized node carries its node's raw_result as "result", and a call   *)
(* of to_json requests no draw, evaluates nothing and leaves the result    *)
(* tree, with the raw_result of every node, as it was.                     *)
(***************************************************************************)
C20_ToJsonIsPure ==
    /\ []((entry = "roll" /\ pc = "done") => ResultsSerialized(result_tree))
    /\ [][(entry = "roll" /\ json_out' # json_out /\ json_out' # None)
            => /\ json_out'.text = json_dumps(to_dict(result_tree))
               /\ drawLog' = drawLog
               /\ result_tree' = result_tree
               /\ eval_tree' = eval_tree
               /\ stack' = stack
               /\ pc' = pc]_vars

\* "2/2" rendered as JSON: the result tree holds the float 1.0.
C20_Witness ==
    /\ IsSingleInput
    /\ pc = "done"
    /\ json_out # None
    /\ result_tree.expr_result_nodes[1].raw_result = FloatV(1, 1)
    /\ Field(to_dict(result_tree.expr_result_nodes[1]), <<"r", "e", "s", "u", "l", "t">>)
         = JVal(FloatV(1, 1))

(***************************************************************************)
(* What the claims about a DiceRoll read off the input as written: the     *)
(* number of dice k, the faces, and the directives in the order given.     *)
(***************************************************************************)
\* The count written before the d, 1 if none is.
TokenCount(t) ==
    IF DigitRun(t, 1) = 0 THEN 1 ELSE DigitsToInt(SubSeq(t, 1, DigitRun(t, 1)))

\* Where the faces are written: after the count and the d.
FacesAt(t) == DigitRun(t, 1) + 2

TokenIsFudge(t) == Len(t) >= FacesAt(t) /\ t[FacesAt(t)] \in {"F", "f"}

TokenLower(t) == IF TokenIsFudge(t) THEN -1 ELSE 1

TokenUpper(t) ==
    IF TokenIsFudge(t) THEN 1
    ELSE DigitsToInt(SubSeq(t, FacesAt(t), FacesAt(t) - 1 + DigitRun(t, FacesAt(t))))

DirIsKeep(d) == d[1] = "k"

DirIsDrop(d) == d[1] = "d"

DirIsHigh(d) == d[2] = "h"

DirCount(d) == DigitsToInt(SubSeq(d, 3, Len(d)))

RECURSIVE CountsOf(_)
CountsOf(ds) == IF ds = << >> THEN 0 ELSE DirCount(Head(ds)) + CountsOf(Tail(ds))

\* The sum of the counts of the directives of ds that satisfy P.
CountSum(ds, P(_)) == CountsOf(SelectSeq(ds, P))

IsDropLow(d) == DirIsDrop(d) /\ ~DirIsHigh(d)

IsDropHigh(d) == DirIsDrop(d) /\ DirIsHigh(d)

IsAny(d) == TRUE

NumKeeps(ds) == Cardinality({i \in 1..Len(ds) : DirIsKeep(ds[i])})

\* How many times v occurs in the sequence s.
Occurrences(s, v) == Cardinality({i \in 1..Len(s) : s[i] = v})

\* Whether the face-count record d holds exactly the values of the sequence s.
RecordIs(d, s) ==
    /\ \A v \in -1..9 : DefaultGet(d, v) = Occurrences(s, v)
    /\ \A i \in 1..Len(d) : d[i][2] > 0

DiceDone == entry = "dice" /\ pc = "done"

Outcomes == result_tree.die_results

SortedOutcomes == PySorted(result_tree.die_results)

Total == result_tree.raw_result.num

(***************************************************************************)
(* C4.  As claimed: every die outcome recorded for a Fudge roll is -1 or   *)
(* 1, never 0.                                                             *)
(***************************************************************************)
C4_FudgeTwoValued ==
    (DiceDone /\ TokenIsFudge(input.dice_token))
        => \A i \in 1..Len(Outcomes) : Outcomes[i] \in {-1, 1}

\* C4, amended: every die outcome recorded for a Fudge roll was drawn with
\* bounds (-1, 1) and is -1, 0 or 1.
C4_FudgeThreeValued ==
    (DiceDone /\ TokenIsFudge(input.dice_token))
        => /\ \A i \in 1..Len(Outcomes) : Outcomes[i] \in {-1, 0, 1}
           /\ \A i \in 1..Len(drawLog) : drawLog[i].lower = -1 /\ drawLog[i].upper = 1

C4_Witness ==
    /\ DiceDone
    /\ TokenIsFudge(input.dice_token)
    /\ \E i \in 1..Len(Outcomes) : Outcomes[i] = 0

(***************************************************************************)
(* C5.  A roll NdS makes exactly N calls of random.randint, each with the  *)
(* bounds of the die, with or without directives; die_results holds the N  *)
(* values in the order drawn; with no directives the total is their sum.   *)
(***************************************************************************)
C5_DrawsAndOutcomes ==
    LET k == TokenCount(input.dice_token)
    IN  /\ (entry = "dice")
            => /\ Len(drawLog) <= k
               /\ \A i \in 1..Len(drawLog) :
                     /\ drawLog[i].lower = TokenLower(input.dice_token)
                     /\ drawLog[i].upper = TokenUpper(input.dice_token)
                     /\ drawLog[i].value \in drawLog[i].lower..drawLog[i].upper
        /\ DiceDone
            => /\ Len(drawLog) = k
               /\ Outcomes = [i \in 1..k |-> drawLog[i].value]
               /\ (input.directives = << >> => Total = PySum(Outcomes))

C5_Witness ==
    /\ DiceDone
    /\ input.directives = << >>
    /\ Len(Outcomes) >= 2
    /\ Outcomes[1] > Outcomes[2]

(***************************************************************************)
(* C6.  As claimed: with Drop-Low(m) and Keep-High(j), m + j <= k, the     *)
(* kept record holds exactly the top j values of O[m:] and the total is    *)
(* their sum.                                                              *)
(***************************************************************************)
C6_KeepDropBound ==
    LET ds == input.directives
        k == TokenCount(input.dice_token)
        dl == IF IsDropLow(ds[1]) THEN ds[1] ELSE ds[2]
        kh == IF IsDropLow(ds[1]) THEN ds[2] ELSE ds[1]
        top == SubSeq(SortedOutcomes, k - DirCount(kh) + 1, k)
    IN  (/\ DiceDone
         /\ Len(ds) = 2
         /\ \E i \in 1..2 : IsDropLow(ds[i])
         /\ \E i \in 1..2 : DirIsKeep(ds[i]) /\ DirIsHigh(ds[i])
         /\ DirCount(dl) + DirCount(kh) <= k)
        => /\ RecordIs(result_tree.to_keep, top)
           /\ Total = PySum(top)

(***************************************************************************)
(* C7.  As claimed: with a single Drop directive of count c <= k and no    *)
(* Keep, the total is the sum of what is left after removing the c lowest  *)
(* (or highest), the dropped record holds exactly those c dice, and the    *)
(* kept record is empty.                                                   *)
(***************************************************************************)
C7_SingleDrop ==
    LET ds == input.directives
        k == TokenCount(input.dice_token)
        c == DirCount(ds[1])
        removed == IF DirIsHigh(ds[1]) THEN SubSeq(SortedOutcomes, k - c + 1, k)
                   ELSE SubSeq(SortedOutcomes, 1, c)
        left == IF DirIsHigh(ds[1]) THEN SubSeq(SortedOutcomes, 1, k - c)
                ELSE SubSeq(SortedOutcomes, c + 1, k)
    IN  (DiceDone /\ Len(ds) = 1 /\ DirIsDrop(ds[1]) /\ c <= k)
        => /\ Total = PySum(left)
           /\ RecordIs(result_tree.to_drop, removed)
           /\ DictTotal(result_tree.to_drop) = c
           /\ result_tree.to_keep = << >>

(***************************************************************************)
(* C8.  As claimed: when the directive counts sum past k, construction     *)
(* fails or the window saturates: 0 <= left <= right <= k, no slice index  *)
(* is negative, and no more than k dice are recorded as kept or dropped.   *)
(***************************************************************************)
C8_OverSubscribed ==
    LET ds == input.directives
        k == TokenCount(input.dice_token)
        w == DropWindow(eval_tree.directives, SortedOutcomes)
        keeps == eval_tree.directives.keep
    IN  (DiceDone /\ CountSum(ds, IsAny) > k)
        => /\ 0 <= w.left_idx /\ w.left_idx <= w.right_idx /\ w.right_idx <= k
           /\ \A i \in 1..Len(keeps) :
                 LET sl == KeepSlice(keeps[i][1], keeps[i][2], w.left_idx, w.right_idx)
                 IN  sl.start >= 0 /\ sl.stop >= 0
           /\ DictTotal(result_tree.to_keep) <= k
           /\ DictTotal(result_tree.to_drop) <= k

(***************************************************************************)
(* C9.  As claimed: a directive list with two or more Keep directives, of  *)
(* any kinds, fails at construction, before any die is drawn.              *)
(***************************************************************************)
C9_TwoKeepsRejected ==
    (entry = "dice" /\ NumKeeps(input.directives) >= 2 /\ pc # "start")
        => pc = "failed" /\ drawLog = << >>

(***************************************************************************)
(* C10.  As claimed: with a list of Drop directives only, of any kinds and *)
(* with repeats, whose counts sum to at most k, the low-end trim is the    *)
(* sum of the Drop-Low counts, the high-end trim the sum of the Drop-High  *)
(* counts, and the dice excluded from the total number the sum of all.     *)
(***************************************************************************)
C10_DropsCompose ==
    LET ds == input.directives
        k == TokenCount(input.dice_token)
        low == CountSum(ds, IsDropLow)
        high == CountSum(ds, IsDropHigh)
        w == DropWindow(eval_tree.directives, SortedOutcomes)
    IN  (/\ DiceDone
         /\ ds # << >>
         /\ \A i \in 1..Len(ds) : DirIsDrop(ds[i])
         /\ CountSum(ds, IsAny) <= k)
        => /\ w.left_idx = low
           /\ w.right_idx = k - high
           /\ k - (w.right_idx - w.left_idx) = low + high
           /\ Total = PySum(SubSeq(SortedOutcomes, low + 1, k - high))

(***************************************************************************)
(* What the claim about the dice token reads off the token as written.     *)
(***************************************************************************)
AllDigits(s) == s # << >> /\ \A i \in 1..Len(s) : IsDigit(s[i])

\* The token is [count]d(sides|F) and nothing more.
HasDiceForm(t) ==
    LET n == DigitRun(t, 1)
        faces == SubSeq(t, n + 2, Len(t))
    IN  /\ Len(t) >= n + 2
        /\ t[n + 1] = "d"
        /\ (AllDigits(faces) \/ faces \in {<<"F">>, <<"f">>})

\* A count of at least 1 and a die of more than one face.
IsValidDice(t) ==
    LET n == DigitRun(t, 1)
        faces == SubSeq(t, n + 2, Len(t))
    IN  /\ HasDiceForm(t)
        /\ n > 0 => DigitsToInt(SubSeq(t, 1, n)) >= 1
        /\ AllDigits(faces) => DigitsToInt(faces) >= 2

(***************************************************************************)
(* C19.  As claimed: a DiceRoll is constructed only from a token of the    *)
(* form [count]d(sides|F) with a count of at least 1 and a die of more     *)
(* than one face; any other token fails at construction with ValueError,   *)
(* so that evaluate() never draws for a die of fewer than two faces.       *)
(***************************************************************************)
C19_ConstructionValidates ==
    entry = "dice"
        => /\ eval_tree # None => IsValidDice(input.dice_token)
           /\ (~IsValidDice(input.dice_token) /\ pc # "start")
                => /\ pc = "failed"
                   /\ error.exc = "ValueError"
                   /\ eval_tree = None
           /\ pc = "running" => Top(stack).node.random_lower < Top(stack).node.random_upper

(***************************************************************************)
(* What the claim about a Sequence node reads off its items.               *)
(***************************************************************************)
\* The values drawn under item k of the sequence, in the order drawn: the
\* sequence has then finished k - 1 items.
DrawnForItem(k) ==
    LET sel == SelectSeq(drawLog,
                   LAMBDA d : d.path[1] = [type |-> "sequence", done |-> k - 1,
                                           role |-> "expr_nodes"])
    IN  [i \in 1..Len(sel) |-> sel[i].value]

\* The token of the result of an item: what the item was written as.
ItemToken(node) ==
    IF node.type = "dice" THEN combined_token(node) ELSE node.number_token

(***************************************************************************)
(* C14.  Sequence arity: constructing a Sequence of 0 or 1 items fails     *)
(* with ValueError; a Sequence of 2 or more items evaluates each item      *)
(* exactly once, first to last, and its value lists the values of the      *)
(* items in that order.                                                    *)
(***************************************************************************)
C14_SequenceArity ==
    entry = "sequence"
        => /\ (Len(input) < 2 /\ pc # "start")
                => /\ pc = "failed"
                   /\ error.exc = "ValueError"
                   /\ eval_tree = None
                   /\ drawLog = << >>
           /\ Len(input) >= 2
                => /\ pc # "failed"
                   /\ \A i, j \in 1..Len(drawLog) :
                          i < j => drawLog[i].path[1].done <= drawLog[j].path[1].done
                   /\ \A k \in 1..Len(input) :
                          Len(DrawnForItem(k)) <= DrawsOf(input[k])
                   /\ pc = "done"
                        => /\ result_tree.node_type = "SequenceResultNode"
                           /\ Len(result_tree.expr_result_nodes) = Len(input)
                           /\ Len(result_tree.raw_result.items) = Len(input)
                           /\ \A k \in 1..Len(input) :
                                LET r == result_tree.expr_result_nodes[k]
                                IN  /\ r.token = ItemToken(input[k])
                                    /\ DieValues(r) = DrawnForItem(k)
                                    /\ Len(DrawnForItem(k)) = DrawsOf(input[k])
                                    /\ result_tree.raw_result.items[k] = r.raw_result

\* [1d2, 2.5, 2dF kh1] rolled 2, then 0 and 1: the value is [2, 2.5, 1].
C14_Witness ==
    /\ entry = "sequence"
    /\ Len(input) = 3
    /\ pc = "done"
    /\ [i \in 1..Len(drawLog) |-> drawLog[i].value] = <<2, 0, 1>>
    /\ result_tree.raw_result = ListV(<<IntV(2), FloatV(5, 2), IntV(1)>>)

(***************************************************************************)
(* What the claims about the parser read off the roll string.              *)
(***************************************************************************)
IsOperator(c) == c \in {"+", "-", "*", "/"}

\* The position of the first character after position i that is no space,
\* 0 if there is none.
NextAfter(s, i) ==
    LET rest == {j \in (i + 1)..Len(s) : ~IsSpace(s[j])}
    IN  IF rest = {} THEN 0 ELSE CHOOSE j \in rest : \A k \in rest : j <= k

\* The position of the last character that is no space, 0 if there is none.
LastOf(s) ==
    LET all == {j \in 1..Len(s) : ~IsSpace(s[j])}
    IN  IF all = {} THEN 0 ELSE CHOOSE j \in all : \A k \in all : j >= k

\* The parentheses opened and not closed in the first i characters.
Depth(s, i) ==
    Cardinality({j \in 1..i : s[j] = "("}) - Cardinality({j \in 1..i : s[j] = ")"})

UnmatchedParenthesis(s) == Depth(s, Len(s)) # 0 \/ \E i \in 1..Len(s) : Depth(s, i) < 0

\* Two operators with nothing but spaces between them.
DoubledAt(s, i) == IsOperator(s[i]) /\ NextAfter(s, i) # 0 /\ IsOperator(s[NextAfter(s, i)])

DoubledOperator(s) == \E i \in 1..Len(s) : DoubledAt(s, i)

\* The second of two operators is the minus sign a number is written with.
SignsANumber(s, j) ==
    s[j] = "-" /\ (IsDigit(CharAt(s, j + 1)) \/ CharAt(s, j + 1) = ".")

DoubledOperatorNoSign(s) ==
    \E i \in 1..Len(s) : DoubledAt(s, i) /\ ~SignsANumber(s, NextAfter(s, i))

DanglingOperator(s) == LastOf(s) # 0 /\ IsOperator(s[LastOf(s)])

LeadingPlus(s) == NextAfter(s, 0) # 0 /\ s[NextAfter(s, 0)] = "+"

\* A count, if any, and a d without faces: "d", "3d".
IncompleteDice(s) == Len(s) = DigitRun(s, 1) + 1 /\ s[Len(s)] = "d"

\* A d that stands between spaces: "3 d 6".
SplitDice(s) ==
    \E i \in 2..(Len(s) - 1) : s[i] = "d" /\ IsSpace(s[i - 1]) /\ IsSpace(s[i + 1])

\* A minus sign before a dice token with a count: "-3d6".
NegativeDiceCount(s) ==
    /\ Len(s) > 1
    /\ s[1] = "-"
    /\ DigitRun(s, 2) > 0
    /\ HasDiceForm(Tail(s))

\* One comma, with nothing before it or nothing after it: "3,", ",4".
StrayComma(s) ==
    /\ Cardinality({i \in 1..Len(s) : s[i] = ","}) = 1
    /\ \/ s[NextAfter(s, 0)] = ","
       \/ s[LastOf(s)] = ","

MalformedButDoubled(s) ==
    \/ s = << >>
    \/ UnmatchedParenthesis(s)
    \/ DanglingOperator(s)
    \/ LeadingPlus(s)
    \/ IncompleteDice(s)
    \/ SplitDice(s)
    \/ NegativeDiceCount(s)
    \/ StrayComma(s)

\* parser.parse raised, and nothing was built or evaluated in its place.
RejectedByParser ==
    /\ pc = "failed"
    /\ error.exc = "LarkError"
    /\ input = None
    /\ eval_tree = None
    /\ result_tree = None
    /\ drawLog = << >>

(***************************************************************************)
(* C17.  As claimed: the parser rejects with a syntax error, and turns     *)
(* into no expression, the empty string, an unmatched parenthesis, a       *)
(* doubled or dangling operator, a leading "+", an incomplete dice token,  *)
(* a dice token split by spaces, a negative dice count and a single list   *)
(* expression with a leading or trailing comma.                            *)
(***************************************************************************)
C17_MalformedRejected ==
    (entry = "roll" /\ pc # "text"
        /\ (MalformedButDoubled(roll_string) \/ DoubledOperator(roll_string)))
        => RejectedByParser

(***************************************************************************)
(* C17, amended.  The parser rejects all of these but a doubled operator   *)
(* whose second sign is the minus sign of a number: "3++4" is rejected,    *)
(* while "3--4" is parsed as 3 - (-4) and evaluates to 7.                  *)
(***************************************************************************)
C17_MalformedRejectedButSign ==
    (entry = "roll" /\ pc # "text")
        => /\ (MalformedButDoubled(roll_string) \/ DoubledOperatorNoSign(roll_string))
                => RejectedByParser
           /\ (DoubledOperator(roll_string) /\ ~DoubledOperatorNoSign(roll_string)
                  /\ ~MalformedButDoubled(roll_string))
                => /\ pc # "failed"
                   /\ input.children[1].children[1].data \in {"binary_op_as", "binary_op_md"}
                   /\ (roll_string = <<"3", "-", "-", "4">> /\ pc = "done")
                        => result_tree.raw_result = IntV(7)

\* "3++4" is rejected.
C17_Witness ==
    /\ roll_string = <<"3", "+", "+", "4">>
    /\ RejectedByParser

(***************************************************************************)
(* What the claim about precedence reads off a parse tree.                 *)
(***************************************************************************)
\* How tightly the top of a tree binds: + and - least, * and / more, any
\* other expression, a parenthesised one too, most.
Binding(tree) ==
    IF IsToken(tree) THEN 3
    ELSE CASE tree.data = "binary_op_as" -> 1
           [] tree.data = "binary_op_md" -> 2
           [] OTHER -> 3

\* Every binary operation of the tree has a right operand that binds more
\* tightly than itself and a left operand that binds at least as tightly:
\* the tree of standard precedence and left-associativity.
RECURSIVE IsStandard(_)
IsStandard(tree) ==
    IsToken(tree)
    \/ /\ \A i \in 1..Len(tree.children) : IsStandard(tree.children[i])
       /\ tree.data \in {"binary_op_as", "binary_op_md"}
            => /\ Binding(tree.children[1]) >= Binding(tree)
               /\ Binding(tree.children[3]) > Binding(tree)

C21_ResultNeverMutated ==
    [][(entry = "roll" /\ pc = "done" /\ pc' = "done")
          => /\ result_tree' = result_tree
             /\ to_json(result_tree') = to_json(result_tree)]_vars

(***************************************************************************)
(* What the claims about a failing evaluation read off the exception, the  *)
(* result and the log of draws.                                            *)
(***************************************************************************)
DrawnValues(log) == [i \in 1..Len(log) |-> log[i].value]

\* The outcomes of the dice held in the frames of a call stack, outermost
\* frame first: the rolls of a dice node, the results of the children
\* another node has finished.
RECURSIVE HeldValues(_)
HeldValues(stk) ==
    IF stk = << >> THEN << >>
    ELSE (IF Head(stk).node.type = "dice" THEN Head(stk).acc
          ELSE DieValuesOfAll(Head(stk).acc)) \o HeldValues(Tail(stk))

\* The exception is the one the innermost frame of its traceback raises: a
\* division whose right operand was worth zero, or a number literal that
\* is not of its kind.
RaisedByInnermost(e) ==
    LET f == Top(e.traceback)
    IN  CASE f.node.type = "binop" ->
                /\ Len(f.acc) = 2
                /\ f.node.operator = "/"
                /\ f.acc[2].raw_result.num = 0
                /\ e.exc = "ZeroDivisionError"
          [] f.node.type = "number" ->
                /\ e.exc = "ValueError"
                /\ IsRaise(Number_evaluate(f.node))
          [] OTHER -> FALSE

\* A result is the whole result of an expression: node for node the result
\* of the sub-expression in its place, no division by zero among them.
RECURSIVE Mirrors(_, _)
Mirrors(node, result) ==
    CASE node.type = "dice" ->
            /\ result.node_type = "DiceResultNode"
            /\ Len(result.die_results) = node.num_dice
      [] node.type = "number" -> result = Number_evaluate(node)
      [] node.type = "binop" ->
            /\ result.node_type = "BinaryOpResultNode"
            /\ Mirrors(node.left, result.left)
            /\ Mirrors(node.right, result.right)
            /\ ~(node.operator = "/" /\ result.right.raw_result.num = 0)
      [] node.type = "list" /\ node.count_expr_node = None ->
            /\ result.node_type = "ListResultNode"
            /\ Len(result.expr_result_nodes) = 1
            /\ Mirrors(node.loop_expr_node, result.expr_result_nodes[1])
      [] node.type = "list" /\ node.count_expr_node # None ->
            /\ result.node_type = "ListResultNode"
            /\ Mirrors(node.count_expr_node, result.count_result_node)
            /\ Len(result.expr_result_nodes)
                 = Max(0, PyInt(result.count_result_node.raw_result).num)
            /\ \A i \in 1..Len(result.expr_result_nodes) :
                  Mirrors(node.loop_expr_node, result.expr_result_nodes[i])
      [] node.type = "sequence" ->
            /\ result.node_type = "SequenceResultNode"
            /\ Len(result.expr_result_nodes) = Len(node.expr_nodes)
            /\ \A i \in 1..Len(node.expr_nodes) :
                  Mirrors(node.expr_nodes[i], result.expr_result_nodes[i])

(***************************************************************************)
(* C22.  Errors propagate without recovery: when the evaluation of a       *)
(* sub-expression fails (an operand of a binary operation, the count or an *)
(* iteration of a list, an item of a sequence), the outermost evaluate()   *)
(* fails with the error that sub-expression raised and returns no result;  *)
(* every draw made is held once in what was finished by then, so nothing   *)
(* was retried; and a result that is returned is the whole result.         *)
(***************************************************************************)
C22_ErrorsPropagate ==
    (entry = "node" /\ eval_tree # None)
        => /\ pc = "failed"
                => /\ result_tree = None
                   /\ stack = << >>
                   /\ error.traceback[1].node = eval_tree
                   /\ RaisedByInnermost(error)
                   /\ DrawnValues(drawLog) = HeldValues(error.traceback)
           /\ pc = "done"
                => /\ Mirrors(eval_tree, result_tree)
                   /\ DrawnValues(drawLog) = DieValues(result_tree)

\* The second iteration of a list fails, under a division, after the first
\* one has ended.
C22_Witness ==
    /\ entry = "node"
    /\ pc = "failed"
    /\ eval_tree # None
    /\ eval_tree.type = "list"
    /\ Len(error.traceback) = 2
    /\ Len(error.traceback[1].acc) = 2
    /\ error.exc = "ZeroDivisionError"
    /\ Len(drawLog) = 2
    /\ snapshot = None

(***************************************************************************)
(* C26.  As claimed: validation is fail-fast: a number literal of kind     *)
(* natural_num whose text is zero or negative is rejected when the node is *)
(* constructed, and no evaluation consumes a draw and then fails with      *)
(* this validation error.                                                  *)
(***************************************************************************)
C26_ValidationFailFast ==
    entry = "node"
        => /\ (/\ input.ctor = "NumberEvaluatorNode"
               /\ input.number_type = "natural_num"
               /\ ~IsRaise(ParseInt(input.number_token))
               /\ ParseInt(input.number_token).num <= 0
               /\ pc # "start")
                => (pc = "failed" /\ eval_tree = None)
           /\ (pc = "failed" /\ error.msg = "Natural number must be positive")
                => drawLog = << >>

(***************************************************************************)
(* What the claim about re-evaluation reads off the tree and the log.      *)
(***************************************************************************)
\* The node of a tree a draw was requested by: from the root, the child
\* each caller on the path was evaluating.
RECURSIVE NodeAt(_, _)
NodeAt(node, path) ==
    IF path = << >> THEN node
    ELSE LET p == Head(path)
             child == CASE p.role = "left" -> node.left
                        [] p.role = "right" -> node.right
                        [] p.role = "count_expr_node" -> node.count_expr_node
                        [] p.role = "loop_expr_node" -> node.loop_expr_node
                        [] p.role = "expr_nodes" -> node.expr_nodes[p.done + 1]
         IN  NodeAt(child, Tail(path))

\* Every draw of the log was requested by a dice node of the tree, with the
\* bounds of that node.
RequestedByTree(tree, log) ==
    \A i \in 1..Len(log) :
        LET node == NodeAt(tree, log[i].path)
        IN  /\ node.type = "dice"
            /\ log[i].lower = node.random_lower
            /\ log[i].upper = node.random_upper

\* Every dice result of a result is what its dice node makes of its rolls,
\* directives applied.
RECURSIVE DirectivesApplied(_, _)
DirectivesApplied(node, result) ==
    CASE node.type = "dice" -> result = DiceRoll_finish(node, result.die_results)
      [] node.type = "binop" ->
            DirectivesApplied(node.left, result.left)
            /\ DirectivesApplied(node.right, result.right)
      [] node.type = "list" ->
            /\ node.count_expr_node # None
                  => DirectivesApplied(node.count_expr_node, result.count_result_node)
            /\ \A i \in 1..Len(result.expr_result_nodes) :
                  DirectivesApplied(node.loop_expr_node, result.expr_result_nodes[i])
      [] node.type = "sequence" ->
            \A i \in 1..Len(node.expr_nodes) :
                DirectivesApplied(node.expr_nodes[i], result.expr_result_nodes[i])
      [] OTHER -> TRUE

(***************************************************************************)
(* C30.  evaluate() leaves the Expression tree unchanged: after any number *)
(* of evaluations, ended by a result or by an exception, the tree is the   *)
(* one that was constructed; every evaluation requests its draws from the  *)
(* dice nodes of that tree with their bounds, and every die of a result    *)
(* was drawn in the evaluation that returned it, its directives applied:   *)
(* nothing is kept from one evaluation to the next.                        *)
(***************************************************************************)
C30_EvaluateLeavesTree ==
    /\ []((entry = "node" /\ eval_tree # None)
            => /\ eval_tree = NewNode(input)
               /\ RequestedByTree(eval_tree, drawLog)
               /\ pc = "done"
                    => /\ DrawnValues(drawLog) = DieValues(result_tree)
                       /\ DirectivesApplied(eval_tree, result_tree))
    /\ [][(entry = "node" /\ eval_tree # None) => eval_tree' = eval_tree]_vars

\* An evaluation that ended by an exception, and the next one of the same
\* tree, which ended by a result after other draws.
C30_Witness ==
    /\ entry = "node"
    /\ pc = "done"
    /\ snapshot # None
    /\ snapshot.error # None
    /\ snapshot.drawLog # << >>
    /\ Requests(drawLog) = Requests(snapshot.drawLog)
    /\ DrawnValues(drawLog) # DrawnValues(snapshot.drawLog)

(***************************************************************************)
(* What the claim about nested lists reads off the trees and the log.      *)
(***************************************************************************)
\* The node is ListEvaluatorNode(c1, ListEvaluatorNode(c2, b)).
IsNestedList ==
    /\ entry = "node"
    /\ input.ctor = "ListEvaluatorNode"
    /\ input.count_expr_node # None
    /\ input.loop_expr_node.type = "list"
    /\ input.loop_expr_node.count_expr_node # None

\* The draws of outer iteration k requested under the inner count, and
\* under the inner body.
InnerDraws(k, role) ==
    {i \in 1..Len(drawLog) :
        /\ Len(drawLog[i].path) >= 2
        /\ drawLog[i].path[1] = [type |-> "list", done |-> k, role |-> "loop_expr_node"]
        /\ drawLog[i].path[2].role = role}

(***************************************************************************)
(* C25.  Nested repetition ListEvaluatorNode(c1, ListEvaluatorNode(c2, b)) *)
(* with c1 worth n1 > 0: c1 is evaluated once, c2 once in each of the n1   *)
(* outer iterations, b once per leaf; the value is a sequence of n1        *)
(* sequences, left nested, row k having as many entries as the k-th        *)
(* evaluation of c2 gave, none when that was <= 0, every leaf an int.      *)
(***************************************************************************)
C25_NestedRepetition ==
    (IsNestedList /\ pc = "done"
        /\ TruncationOf(result_tree.count_result_node.raw_result) > 0)
        => LET n1 == TruncationOf(result_tree.count_result_node.raw_result)
               c1 == input.count_expr_node
               c2 == input.loop_expr_node.count_expr_node
               b == input.loop_expr_node.loop_expr_node
           IN  /\ Cardinality(CountDraws) = DrawsOf(c1)
               /\ Len(result_tree.expr_result_nodes) = n1
               /\ result_tree.raw_result.kind = "list"
               /\ Len(result_tree.raw_result.items) = n1
               /\ \A k \in 1..n1 :
                    LET row == result_tree.expr_result_nodes[k]
                        n2 == Max(0, TruncationOf(row.count_result_node.raw_result))
                        value == result_tree.raw_result.items[k]
                    IN  /\ row.node_type = "ListResultNode"
                        /\ Cardinality(InnerDraws(k, "count_expr_node")) = DrawsOf(c2)
                        /\ Cardinality(InnerDraws(k, "loop_expr_node")) = n2 * DrawsOf(b)
                        /\ Len(row.expr_result_nodes) = n2
                        /\ value.kind = "list"
                        /\ Len(value.items) = n2
                        /\ \A j \in 1..n2 :
                              IsTruncationOf(value.items[j], row.expr_result_nodes[j].raw_result)
                        /\ DieValues(row) = DrawnInIteration(k)

\* "1d2 1d2-1 1d2": two rows, the first one empty, the second one of one
\* entry.
C25_Witness ==
    /\ IsNestedList
    /\ pc = "done"
    /\ Cardinality(CountDraws) = 1
    /\ result_tree.raw_result = ListV(<<ListV(<< >>), ListV(<<IntV(2)>>)>>)

(***************************************************************************)
(* C27.  As claimed: in a DiceResult of k dice with directives whose       *)
(* counts sum to at most k, the kept and the dropped record are disjoint   *)
(* selections of the dice rolled: for every face value v, kept[v] +        *)
(* dropped[v] is at most the number of dice that show v, so that no die is *)
(* both kept and dropped.                                                  *)
(***************************************************************************)
C27_KeptDroppedDisjoint ==
    (DiceDone /\ CountSum(input.directives, IsAny) <= TokenCount(input.dice_token))
        => \A v \in -1..9 :
              DefaultGet(result_tree.to_keep, v) + DefaultGet(result_tree.to_drop, v)
                  <= Occurrences(Outcomes, v)

(***************************************************************************)
(* What the claim about letter case reads off the roll string and the      *)
(* evaluator tree.                                                         *)
(***************************************************************************)
LowerCase(s) == [i \in 1..Len(s) |-> Lower(s[i])]

HasUpperCase(s) == s # LowerCase(s)

\* The dice nodes of an evaluator tree.
RECURSIVE DiceNodes(_)
DiceNodes(node) ==
    CASE node = None -> {}
      [] node.type = "dice" -> {node}
      [] node.type = "binop" -> DiceNodes(node.left) \cup DiceNodes(node.right)
      [] node.type = "list" -> DiceNodes(node.count_expr_node) \cup DiceNodes(node.loop_expr_node)
      [] node.type = "sequence" ->
            UNION {DiceNodes(node.expr_nodes[i]) : i \in 1..Len(node.expr_nodes)}
      [] OTHER -> {}

\* The dice node has the count, the bounds and the directives of the node
\* constructed from its tokens in lower case.
AsInLowerCase(node) ==
    LET lower == DiceRollEvaluatorNode(LowerCase(node.dice_token),
                     [i \in 1..Len(node.directive_tokens) |->
                         LowerCase(node.directive_tokens[i])])
    IN  /\ ~IsRaise(lower)
        /\ node.num_dice = lower.num_dice
        /\ node.random_lower = lower.random_lower
        /\ node.random_upper = lower.random_upper
        /\ node.directives = lower.directives

(***************************************************************************)
(* C28.  As claimed: letter case does not change the outcome of tree       *)
(* building: a roll string with a dice token or a directive in upper or    *)
(* mixed case that the grammar accepts is built into a tree, whose dice    *)
(* nodes have the count, sides and directives of the lower-case form.      *)
(***************************************************************************)
C28_CaseInsensitive ==
    (entry = "roll" /\ roll_string \in CaseStrings /\ HasUpperCase(roll_string)
        /\ input # None /\ pc \notin {"text", "start"})
        => /\ eval_tree # None
           /\ DiceNodes(eval_tree) # {}
           /\ \A node \in DiceNodes(eval_tree) : AsInLowerCase(node)

(***************************************************************************)
(* What the claim about the root of the tree reads off a raw result.       *)
(***************************************************************************)
\* The value is an integer, or a list, nested or empty, of integers.
RECURSIVE IntegerLeaves(_)
IntegerLeaves(v) ==
    IF IsNumber(v) THEN v.kind = "int"
    ELSE \A i \in 1..Len(v.items) : IntegerLeaves(v.items[i])

\* A value below the root that is not an integer.
RECURSIVE HoldsFloat(_)
HoldsFloat(result) ==
    \/ /\ IsNumber(result.raw_result)
       /\ result.raw_result.kind = "float"
    \/ /\ "expr_result_nodes" \in DOMAIN result
       /\ \E i \in 1..Len(result.expr_result_nodes) : HoldsFloat(result.expr_result_nodes[i])
    \/ /\ "left" \in DOMAIN result
       /\ HoldsFloat(result.left) \/ HoldsFloat(result.right)

(***************************************************************************)
(* C29.  The root of every evaluator tree built from a parse is a          *)
(* ListEvaluatorNode or a SequenceEvaluatorNode, and the raw_result of a   *)
(* roll that was parsed, built and evaluated without error is an integer   *)
(* or a list, nested or empty, whose leaves are all integers, also when    *)
(* the roll string holds a division or a float literal.                    *)
(***************************************************************************)
C29_RootRounds ==
    entry = "roll" =>
        /\ eval_tree # None => eval_tree.type \in {"list", "sequence"}
        /\ pc = "done" => IntegerLeaves(result_tree.raw_result)

\* A roll with a float below the root has ended with an integer raw result.
C29_Witness ==
    /\ entry = "roll"
    /\ pc = "done"
    /\ eval_tree.type = "list"
    /\ HoldsFloat(result_tree)
    /\ IntegerLeaves(result_tree.raw_result)

(***************************************************************************)
(* C24.  As claimed: however the command line program is started, it       *)
(* evaluates "1d20" when given no arguments, and an error of parsing,      *)
(* validation or evaluation never leaves main(): main() returns after      *)
(* printing the roll string it was given and the message of the error.     *)
(***************************************************************************)
C24_MainNeverRaises ==
    entry \in Programs =>
        /\ (input.args = << >> /\ pc # "start") => roll_string = <<"1", "d", "2", "0">>
        /\ pc # "raised"
        /\ (pc = "returned" /\ error # None) =>
              text_out = <<Printed("Could not process roll string ", roll_string),
                           Printed("Error: ", error.msg)>>

(***************************************************************************)
(* What the claim about the request handler reads off an event and a       *)
(* response.                                                               *)
(***************************************************************************)
\* The event's body is an object, given as such or as its JSON text, whose
\* roll_string is absent or the empty string.
NoRollString(event) ==
    \E body \in {JDict(<< >>), JDict(<< <<<<"o", "p", "t", "i", "o", "n", "s">>, JDict(<< >>)>> >>),
                 JDict(<< <<<<"r", "o", "l", "l", "_", "s", "t", "r", "i", "n", "g">>, JStr(<< >>)>> >>)} :
        event \in {JDict(<< <<<<"b", "o", "d", "y">>, body>> >>),
                   JDict(<< <<<<"b", "o", "d", "y">>, JStr(json_dumps(body))>> >>)}

\* {"roll_result": <raw value>}
SuccessBody(raw_result) == <<"{">> \o <<"\"", "r", "o", "l", "l", "_", "r", "e", "s", "u", "l", "t", "\"", ":", " ">> \o PyStr(raw_result) \o <<"}">>

\* {"error": "Internal server error", "message": "<str(e)>"}
ErrorEnvelope(e) ==
    <<"{">> \o <<"\"", "e", "r", "r", "o", "r", "\"", ":", " ", "\"", "I", "n", "t", "e", "r", "n", "a", "l", " ", "s", "e", "r", "v", "e", "r", " ", "e", "r", "r", "o", "r", "\"", ",", " ", "\"", "m", "e", "s", "s", "a", "g", "e", "\"", ":", " ">> \o <<"\"", e.msg, "\"", "}">>

(***************************************************************************)
(* C23.  lambda_handler returns a response for every event and lets no     *)
(* exception out, whether the body is missing, is no object, holds no      *)
(* roll string, one that does not parse or one whose evaluation fails.     *)
(* Without a roll_string, or with an empty one, it evaluates "1d20".  On   *)
(* success the response has status 200 and its body holds roll_result,     *)
(* the raw result; on an exception it has status 500 and the error         *)
(* envelope.                                                               *)
(***************************************************************************)
C23_HandlerAlwaysResponds ==
    (entry = "lambda" /\ pc # "start") =>
        /\ pc = "returned"
        /\ NoRollString(input) =>
              /\ error = None
              /\ roll_string = <<"1", "d", "2", "0">>
              /\ result_tree.raw_result \in {IntV(n) : n \in 1..20}
        /\ error = None =>
              /\ json_out.statusCode = 200
              /\ json_out.body = SuccessBody(result_tree.raw_result)
        /\ error # None =>
              /\ result_tree = None
              /\ json_out.statusCode = 500
              /\ json_out.body = ErrorEnvelope(error)

\* A request whose roll divides by zero has been answered with status 500.
C23_Witness ==
    /\ entry = "lambda"
    /\ pc = "returned"
    /\ error # None
    /\ error.exc = "ZeroDivisionError"
    /\ roll_string = <<"1", "/", "0">>
    /\ json_out.statusCode = 500
    /\ json_out.body = ErrorEnvelope(error)

====
